---- MODULE Spec2Model ----
(***************************************************************************)
(* A model of digital-eval (Rust): the PAGE parser's reading-order         *)
(* resolution (src/model/page_parser.rs), the ALTO parser's text assembly  *)
(* (src/model/alto_parser.rs), the metric engine (src/metrics.rs with      *)
(* src/preprocessing.rs), the statistics and the evaluator                 *)
(* (src/evaluation.rs), the run of main (src/main.rs), the format          *)
(* detection and the loading of a file (src/model/digital_object.rs) with  *)
(* the element-level parsers and the geometry (src/geometry.rs), and the   *)
(* metric instances under repeated calls.  Each part has its own           *)
(* specification over the shared variables; the variables of the other     *)
(* parts stay at their idle values.                                        *)
(*                                                                         *)
(* Texts are sequences of characters.  A character is a one-name string;   *)
(* its class (alphabetic, whitespace), its UTF-8 width and its Unicode     *)
(* decomposition are given by the operators below.  An f64 score is        *)
(* modelled as an exact fraction [num, den] in lowest terms: the scores    *)
(* the metrics return are quotients of small integers, and the values the  *)
(* properties single out (0 and 100) are exact in f64 as well.             *)
(***************************************************************************)
EXTENDS Integers, Sequences, FiniteSets, TLC

VARIABLES
    \* ---- metric engine ----
    norm,        \* the NormalizationForm the metrics were constructed with
    candidate,   \* candidate text handed to calculate
    reference,   \* Option<&str>: None or Some(text)
    scores,      \* metric label -> Result<f64> of its calculate call
    \* ---- PAGE / ALTO parser ----
    doc,         \* the source document: its region elements in document order
    ro,          \* reading_order: the document's RegionRefIndexed entries
    dom_order,   \* region_dom_order: the ids of the identified regions
    ordered_ids, \* the resolved order of the ids
    parsed,      \* the parser's return value (full text, regions)
    \* ---- statistics ----
    values,      \* the value list handed to calculate_statistics / detect_outliers
    outliers,    \* the indices detect_outliers returned
    result,      \* the EvaluationResult calculate_statistics was called on
    \* ---- evaluator and main ----
    args,        \* the command line: metric list, flags, and the directories' files
    evaluator,   \* the Evaluator: metrics, is_sequential, reference_path, results
    entries,     \* the entries eval_all is called with
    trace,       \* the gather, load and calculate steps performed so far, in order
    outcome,     \* "" while running, then "Ok" or the error returned
    \* ---- format detection ----
    content,     \* the content of a file, as the chunks it is made of
    format_type, \* the FormatType detect_format returned
    \* ---- loading and the element-level parsers ----
    input,       \* the file DigitalObject::from_file is called on
    object,      \* the Result<DigitalObject> it returned
    \* ---- metric instances ----
    instances,   \* metric label -> the fields of the metric instance
    calls,       \* the number of calculate calls made on each instance
    \* ---- control ----
    pc           \* the position of the operation under study

metricVars == <<norm, candidate, reference, scores>>
pageVars == <<doc, ro, dom_order, ordered_ids, parsed>>
statVars == <<values, outliers, result>>
evalVars == <<args, evaluator, entries, trace, outcome>>
formatVars == <<content, format_type>>
loadVars == <<input, object>>
callVars == <<instances, calls>>

vars == <<metricVars, pageVars, statVars, evalVars, formatVars, loadVars, callVars, pc>>

\* Option<T>
None == <<>>
Some(x) == <<x>>
Unwrap(o) == o[1]

(***************************************************************************)
(* Bounds of the model.                                                    *)
(***************************************************************************)
\* longest candidate / reference text, in characters
MaxLen == 2
\* most words in a candidate / reference text built from Vocabulary
MaxWords == 2
\* most identified regions handed to the reading-order resolution
MaxRegions == 3
\* largest index of a RegionRefIndexed entry
MaxIndex == 1
\* most TextRegion / TextBlock elements in a parsed document
MaxElements == 2
\* largest value of a value list (the values are 0..MaxScore)
MaxScore == 5
\* longest value list over all the values
MaxValues == 4
\* longest value list over the three values 0, 1 and MaxScore
MaxManyValues == 7

(***************************************************************************)
(* Characters.                                                             *)
(*   "a" "n"   ASCII lower-case letters                                    *)
(*   "A"       ASCII upper-case letter                                     *)
(*   " " "\n"  ASCII space and line feed                                   *)
(*   "1"       ASCII digit                                                 *)
(*   a_uml     U+00E4, a letter, two bytes in UTF-8                        *)
(*   dia       U+0308 COMBINING DIAERESIS, a nonspacing mark, two bytes    *)
(***************************************************************************)
AUml == "a_uml"
Dia == "dia"

\* char::len_utf8
Utf8Len(c) == IF c \in {AUml, Dia} THEN 2 ELSE 1

\* a variant of is_letter: char::is_alphanumeric, which keeps the digits
is_alphanumeric(c) == c \in {"a", "n", "A", "1", AUml}

\* char::is_alphabetic
is_letter(c) == c \in {"a", "n", "A", AUml}

\* char::is_whitespace
NL == "\n"
IsWhitespace(c) == c \in {" ", NL}

\* the order of the characters' UTF-8 encodings (String's Ord)
CharRank(c) ==
    CASE c = NL -> 10
      [] c = " " -> 32
      [] c = "1" -> 49
      [] c = "A" -> 65
      [] c = "a" -> 97
      [] c = "n" -> 110
      [] c = AUml -> 228
      [] c = Dia -> 776

Min2(a, b) == IF a <= b THEN a ELSE b
Max2(a, b) == IF a >= b THEN a ELSE b

RECURSIVE SeqsUpTo(_, _)
SeqsUpTo(S, n) ==
    IF n = 0 THEN {<<>>}
    ELSE LET shorter == SeqsUpTo(S, n - 1)
         IN  shorter \cup {Append(s, c) : s \in {t \in shorter : Len(t) = n - 1}, c \in S}

\* The texts the metrics are called on: every text of up to MaxLen characters
\* over Alphabet, and every text of up to MaxWords words of Vocabulary
\* separated by single spaces ("An" is, in lower case, a stopword of the
\* German list).
Alphabet == {"a", " ", "1", AUml, Dia}
Vocabulary == {<<"a">>, <<"n">>, <<"1">>, <<"A", "n">>}

RECURSIVE JoinSp(_)
JoinSp(ws) ==
    IF ws = <<>> THEN <<>>
    ELSE IF Len(ws) = 1 THEN ws[1]
    ELSE ws[1] \o <<" ">> \o JoinSp(Tail(ws))

Texts ==
    SeqsUpTo(Alphabet, MaxLen) \cup {JoinSp(ws) : ws \in SeqsUpTo(Vocabulary, MaxWords)}

\* str::len: the length in bytes
RECURSIVE ByteLen(_)
ByteLen(s) == IF s = <<>> THEN 0 ELSE Utf8Len(Head(s)) + ByteLen(Tail(s))

\* str::chars().count()
CharLen(s) == Len(s)

(***************************************************************************)
(* Preprocessing (src/preprocessing.rs).                                   *)
(***************************************************************************)
NormalizationForm == {"Nfc", "Nfkc", "Nfd", "Nfkd"}

\* Canonical (and compatibility) decomposition: U+00E4 -> U+0061 U+0308.
\* No character of the model has a compatibility-only mapping.
RECURSIVE Decompose(_)
Decompose(s) ==
    IF s = <<>> THEN <<>>
    ELSE IF Head(s) = AUml THEN <<"a", Dia>> \o Decompose(Tail(s))
    ELSE <<Head(s)>> \o Decompose(Tail(s))

\* Canonical composition of a decomposed text: U+0061 U+0308 -> U+00E4.
\* "n" U+0308 has no precomposed form and stays as it is.
RECURSIVE Compose(_)
Compose(s) ==
    IF Len(s) < 2 THEN s
    ELSE IF s[1] = "a" /\ s[2] = Dia THEN <<AUml>> \o Compose(SubSeq(s, 3, Len(s)))
    ELSE <<s[1]>> \o Compose(Tail(s))

normalize_text(text, form) ==
    CASE form = "Nfc" -> Compose(Decompose(text))
      [] form = "Nfkc" -> Compose(Decompose(text))
      [] form = "Nfd" -> Decompose(text)
      [] form = "Nfkd" -> Decompose(text)

\* TextPreprocessor::preprocess
TextPreprocess(text, form) == normalize_text(text, form)

\* LetterPreprocessor::preprocess_letters
preprocess_letters(text, form) ==
    SelectSeq(normalize_text(text, form), is_letter)

\* str::split_whitespace: the maximal runs of non-whitespace characters
RECURSIVE SplitWs(_, _, _)
SplitWs(s, cur, acc) ==
    IF s = <<>> THEN (IF cur = <<>> THEN acc ELSE Append(acc, cur))
    ELSE IF IsWhitespace(Head(s))
         THEN SplitWs(Tail(s), <<>>, IF cur = <<>> THEN acc ELSE Append(acc, cur))
         ELSE SplitWs(Tail(s), Append(cur, Head(s)), acc)

split_whitespace(s) == SplitWs(s, <<>>, <<>>)

\* WordPreprocessor::tokenize
tokenize(text, form) == split_whitespace(normalize_text(text, form))

\* String's Ord: lexicographic by bytes, a proper prefix first
RECURSIVE StrLess(_, _)
StrLess(s, t) ==
    IF t = <<>> THEN FALSE
    ELSE IF s = <<>> THEN TRUE
    ELSE IF Head(s) = Head(t) THEN StrLess(Tail(s), Tail(t))
    ELSE CharRank(Head(s)) < CharRank(Head(t))

\* Vec::sort on a Vec<String>
RECURSIVE InsertSorted(_, _)
InsertSorted(w, sorted) ==
    IF sorted = <<>> THEN <<w>>
    ELSE IF StrLess(w, Head(sorted)) THEN <<w>> \o sorted
    ELSE <<Head(sorted)>> \o InsertSorted(w, Tail(sorted))

RECURSIVE SortWords(_)
SortWords(ws) ==
    IF ws = <<>> THEN <<>> ELSE InsertSorted(Head(ws), SortWords(Tail(ws)))

\* Vec::dedup: drops consecutive repeated elements
RECURSIVE Dedup(_)
Dedup(ws) ==
    IF Len(ws) < 2 THEN ws
    ELSE IF ws[1] = ws[2] THEN Dedup(Tail(ws))
    ELSE <<ws[1]>> \o Dedup(Tail(ws))

\* WordPreprocessor::bag_of_words
bag_of_words(text, form) == Dedup(SortWords(tokenize(text, form)))

\* Vec<String>::join(" ")
RECURSIVE JoinWords(_)
JoinWords(ws) ==
    IF ws = <<>> THEN <<>>
    ELSE IF Len(ws) = 1 THEN ws[1]
    ELSE ws[1] \o <<" ">> \o JoinWords(Tail(ws))

\* StopwordsFilter::load_stopwords
load_stopwords(language) ==
    IF language \in {"deu", "de", "german"}
    THEN { <<"d","e","r">>, <<"d","i","e">>, <<"d","a","s">>, <<"d","e","n">>,
           <<"d","e","m">>, <<"d","e","s">>,
           <<"e","i","n">>, <<"e","i","n","e">>, <<"e","i","n","e","r">>,
           <<"e","i","n","e","s">>, <<"e","i","n","e","m">>, <<"e","i","n","e","n">>,
           <<"u","n","d">>, <<"o","d","e","r">>, <<"a","b","e","r">>,
           <<"w","e","n","n">>, <<"a","l","s">>, <<"n","a","c","h">>,
           <<"i","n">>, <<"a","n">>, <<"a","u","f">>, <<"b","e","i">>,
           <<"m","i","t">>, <<"v","o","n">>, <<"z","u">>,
           <<"i","s","t">>, <<"s","i","n","d">>, <<"w","a","r">>,
           <<"w","a","r","e","n">>, <<"h","a","t">>, <<"h","a","b","e","n">> }
    ELSE {}

\* char::to_lowercase on the characters of the model
LowerChar(c) == IF c = "A" THEN "a" ELSE c

\* str::to_lowercase
to_lowercase(w) == [i \in 1..Len(w) |-> LowerChar(w[i])]

\* StopwordsFilter::filter_tokens
filter_tokens(stopwords, tokens) ==
    LET Keep(token) == to_lowercase(token) \notin stopwords
    IN  SelectSeq(tokens, Keep)

\* the elements of a Vec as a HashSet
SetOf(ws) == {ws[i] : i \in 1..Len(ws)}

(***************************************************************************)
(* Scores: an f64 as an exact fraction in lowest terms, den > 0.           *)
(***************************************************************************)
RECURSIVE Gcd(_, _)
Gcd(a, b) == IF b = 0 THEN a ELSE Gcd(b, a % b)

Abs(x) == IF x < 0 THEN -x ELSE x

Frac(n, d) ==
    LET g == Gcd(Abs(n), Abs(d))
        sg == IF d < 0 THEN -1 ELSE 1
    IN  [num |-> sg * (n \div g), den |-> sg * (d \div g)]

Whole(n) == [num |-> n, den |-> 1]

FracLe(x, y) == x.num * y.den <= y.num * x.den

\* Result<f64>
Ok(score) == [ok |-> TRUE, num |-> score.num, den |-> score.den, err |-> ""]
Err(msg) == [ok |-> FALSE, num |-> 0, den |-> 1, err |-> msg]
ScoreOf(res) == [num |-> res.num, den |-> res.den]

(***************************************************************************)
(* Metric engine (src/metrics.rs).                                         *)
(***************************************************************************)
Min3(a, b, c) == Min2(a, Min2(b, c))

\* strsim::levenshtein: edit distance over the chars of both strings,
\* computed row by row.
RECURSIVE LevRow(_, _, _, _)
LevRow(prev, sc, t, acc) ==
    IF Len(acc) = Len(t) + 1 THEN acc
    ELSE LET j == Len(acc)
             cost == IF sc = t[j] THEN 0 ELSE 1
         IN  LevRow(prev, sc, t,
                    Append(acc, Min3(prev[j + 1] + 1, acc[j] + 1, prev[j] + cost)))

RECURSIVE LevRows(_, _, _, _)
LevRows(s, t, i, prev) ==
    IF i > Len(s) THEN prev[Len(t) + 1]
    ELSE LevRows(s, t, i + 1, LevRow(prev, s[i], t, <<prev[1] + 1>>))

levenshtein(a, b) == LevRows(a, b, 1, [j \in 1..(Len(b) + 1) |-> j - 1])

\* a variant of levenshtein_similarity: max_len is the reference's length alone
levenshtein_similarity_ref_len(can, ref) ==
    IF ref = <<>> THEN (IF can = <<>> THEN Whole(100) ELSE Whole(0))
    ELSE Frac(100 * (ByteLen(ref) - levenshtein(can, ref)), ByteLen(ref))

\* levenshtein_similarity: 100 * (1 - distance / max_len), max_len from str::len
levenshtein_similarity(can, ref) ==
    IF ref = <<>> THEN (IF can = <<>> THEN Whole(100) ELSE Whole(0))
    ELSE LET distance == levenshtein(can, ref)
             max_len == Max2(ByteLen(ref), ByteLen(can))
         IN  IF max_len = 0 THEN Whole(100)
             ELSE Frac(100 * (max_len - distance), max_len)

\* MetricChars::calculate
MetricChars_calculate(form, can, ref) ==
    IF ref = None THEN Err("Reference required for similarity metric")
    ELSE Ok(levenshtein_similarity(TextPreprocess(can, form), TextPreprocess(Unwrap(ref), form)))

\* MetricLetters::calculate
MetricLetters_calculate(form, can, ref) ==
    IF ref = None THEN Err("Reference required for similarity metric")
    ELSE Ok(levenshtein_similarity(preprocess_letters(can, form),
                                   preprocess_letters(Unwrap(ref), form)))

\* MetricWords::calculate
MetricWords_calculate(form, can, ref) ==
    IF ref = None THEN Err("Reference required for similarity metric")
    ELSE Ok(levenshtein_similarity(JoinWords(tokenize(can, form)),
                                   JoinWords(tokenize(Unwrap(ref), form))))

\* a variant of calculate_bow_similarity: divides by the reference's set alone
calculate_bow_similarity_by_ref(can, ref) ==
    IF ref = <<>> THEN (IF can = <<>> THEN Whole(100) ELSE Whole(0))
    ELSE Frac(100 * Cardinality(SetOf(can) \cap SetOf(ref)), Cardinality(SetOf(ref)))

\* MetricBoW::calculate_bow_similarity
calculate_bow_similarity(can, ref) ==
    IF ref = <<>> THEN (IF can = <<>> THEN Whole(100) ELSE Whole(0))
    ELSE LET can_set == SetOf(can)
             ref_set == SetOf(ref)
             intersection == Cardinality(can_set \cap ref_set)
             union == Cardinality(can_set \cup ref_set)
         IN  IF union = 0 THEN Whole(100)
             ELSE Frac(100 * intersection, union)

\* a variant of MetricBoW::calculate: a missing reference counts as the empty text
MetricBoW_calculate_default_ref(form, can, ref) ==
    Ok(calculate_bow_similarity(bag_of_words(can, form),
                                bag_of_words(IF ref = None THEN <<>> ELSE Unwrap(ref), form)))

\* MetricBoW::calculate
MetricBoW_calculate(form, can, ref) ==
    IF ref = None THEN Err("Reference required for BoW metric")
    ELSE Ok(calculate_bow_similarity(bag_of_words(can, form), bag_of_words(Unwrap(ref), form)))

\* MetricIRPre::new / MetricIRRec::new: the language of the stopword list
DefaultLanguage == "deu"

\* a variant of calculate_precision: the stopwords are not filtered out
calculate_precision_unfiltered(can, ref, stopwords) ==
    IF can = <<>> THEN Whole(0)
    ELSE LET can_set == SetOf(can)
             ref_set == SetOf(ref)
         IN  Frac(100 * Cardinality(can_set \cap ref_set), Cardinality(can_set))

\* MetricIRPre::calculate_precision
calculate_precision(can, ref, stopwords) ==
    IF can = <<>> THEN Whole(0)
    ELSE LET can_set == SetOf(filter_tokens(stopwords, can))
             ref_set == SetOf(filter_tokens(stopwords, ref))
             true_positives == Cardinality(can_set \cap ref_set)
         IN  IF can_set = {} THEN Whole(0)
             ELSE Frac(100 * true_positives, Cardinality(can_set))

\* MetricIRPre::calculate
MetricIRPre_calculate(language, can, ref) ==
    IF ref = None THEN Err("Reference required for IR metric")
    ELSE Ok(calculate_precision(tokenize(can, "Nfc"), tokenize(Unwrap(ref), "Nfc"),
                                load_stopwords(language)))

\* a variant of calculate_recall: divides by the number of reference tokens,
\* repeated tokens counted each time
calculate_recall_token_count(can, ref, stopwords) ==
    IF ref = <<>> THEN Whole(0)
    ELSE LET can_set == SetOf(filter_tokens(stopwords, can))
             ref_filtered == filter_tokens(stopwords, ref)
         IN  IF ref_filtered = <<>> THEN Whole(0)
             ELSE Frac(100 * Cardinality(can_set \cap SetOf(ref_filtered)),
                       Len(ref_filtered))

\* MetricIRRec::calculate_recall
calculate_recall(can, ref, stopwords) ==
    IF ref = <<>> THEN Whole(0)
    ELSE LET can_set == SetOf(filter_tokens(stopwords, can))
             ref_set == SetOf(filter_tokens(stopwords, ref))
             true_positives == Cardinality(can_set \cap ref_set)
         IN  IF ref_set = {} THEN Whole(0)
             ELSE Frac(100 * true_positives, Cardinality(ref_set))

\* MetricIRRec::calculate
MetricIRRec_calculate(language, can, ref) ==
    IF ref = None THEN Err("Reference required for IR metric")
    ELSE Ok(calculate_recall(tokenize(can, "Nfc"), tokenize(Unwrap(ref), "Nfc"),
                             load_stopwords(language)))

\* a variant of calculate_f_measure: the arithmetic mean (p + r) / 2
calculate_f_measure_arithmetic(precision, recall) ==
    Frac(precision.num * recall.den + recall.num * precision.den,
         2 * precision.den * recall.den)

\* MetricIRFMeasure::calculate_f_measure: 2 * (p * r) / (p + r)
calculate_f_measure(precision, recall) ==
    IF precision.num * recall.den + recall.num * precision.den = 0 THEN Whole(0)
    ELSE Frac(2 * precision.num * recall.num,
              precision.num * recall.den + recall.num * precision.den)

\* MetricIRFMeasure::calculate: the `?` after each sub-metric returns its error
MetricIRFMeasure_calculate(language, can, ref) ==
    LET precision == MetricIRPre_calculate(language, can, ref)
    IN  IF ~precision.ok THEN precision
        ELSE LET recall == MetricIRRec_calculate(language, can, ref)
             IN  IF ~recall.ok THEN recall
                 ELSE Ok(calculate_f_measure(ScoreOf(precision), ScoreOf(recall)))

\* OCRMetric::label of the seven metrics
Metrics == {"Characters", "Letters", "Words", "BagOfWords",
            "IR-Precision", "IR-Recall", "IR-FMeasure"}

\* OCRMetric::calculate, dispatched on the metric
calculate(metric, form, can, ref) ==
    CASE metric = "Characters" -> MetricChars_calculate(form, can, ref)
      [] metric = "Letters" -> MetricLetters_calculate(form, can, ref)
      [] metric = "Words" -> MetricWords_calculate(form, can, ref)
      [] metric = "BagOfWords" -> MetricBoW_calculate(form, can, ref)
      [] metric = "IR-Precision" -> MetricIRPre_calculate(DefaultLanguage, can, ref)
      [] metric = "IR-Recall" -> MetricIRRec_calculate(DefaultLanguage, can, ref)
      [] metric = "IR-FMeasure" -> MetricIRFMeasure_calculate(DefaultLanguage, can, ref)

(***************************************************************************)
(* Statistics (src/evaluation.rs).  A value is an exact number (an         *)
(* integer of 0..MaxScore); a statistic is an exact fraction.  The         *)
(* standard deviation, the square root of the variance, is kept as         *)
(* Sqrt(variance): two standard deviations compare as their variances.     *)
(***************************************************************************)
\* f64::sqrt of a non-negative fraction
Sqrt(x) == [radicand |-> x]

\* sorted.sort_by(|a, b| a.partial_cmp(b).unwrap()), by insertion
RECURSIVE InsertValue(_, _)
InsertValue(x, sorted) ==
    IF sorted = <<>> THEN <<x>>
    ELSE IF x < Head(sorted) THEN <<x>> \o sorted
    ELSE <<Head(sorted)>> \o InsertValue(x, Tail(sorted))

RECURSIVE sort_by(_)
sort_by(vs) ==
    IF vs = <<>> THEN <<>>
    ELSE InsertValue(vs[Len(vs)], sort_by(SubSeq(vs, 1, Len(vs) - 1)))

\* values.iter().sum()
RECURSIVE Sum(_)
Sum(vs) == IF vs = <<>> THEN 0 ELSE Head(vs) + Sum(Tail(vs))

\* values.iter().map(|v| (v - mean).powi(2)).sum(), mean = total / n, times n * n
RECURSIVE SumSquares(_, _, _)
SumSquares(vs, total, n) ==
    IF vs = <<>> THEN 0
    ELSE (n * Head(vs) - total) * (n * Head(vs) - total) + SumSquares(Tail(vs), total, n)

\* EvaluationResult::new
EvaluationResult_new(eval_key, n_total) ==
    [eval_key |-> eval_key, n_total |-> n_total, n_outlier |-> 0,
     n_chars |-> 0, n_lines |-> 0, total_mean |-> Whole(0),
     mean |-> Whole(0), std |-> Sqrt(Whole(0)), median |-> Whole(0),
     cleared_result |-> None]

\* a variant of calculate_statistics: the median is taken from the values
\* in the order given
calculate_statistics_unsorted(self, vs) ==
    IF vs = <<>> THEN self
    ELSE LET n == Len(vs)
             mid == n \div 2
         IN  [self EXCEPT
                !.mean = Frac(Sum(vs), n),
                !.std = Sqrt(Frac(SumSquares(vs, Sum(vs), n), n * n * n)),
                !.median = IF n % 2 = 0 THEN Frac(vs[mid] + vs[mid + 1], 2)
                           ELSE Whole(vs[mid + 1])]

\* a variant of calculate_statistics: an empty list resets the three
\* statistics
calculate_statistics_resetting(self, vs) ==
    IF vs = <<>>
    THEN [self EXCEPT !.mean = Whole(0), !.std = Sqrt(Whole(0)), !.median = Whole(0)]
    ELSE LET n == Len(vs)
             sorted == sort_by(vs)
             mid == n \div 2
         IN  [self EXCEPT
                !.mean = Frac(Sum(vs), n),
                !.std = Sqrt(Frac(SumSquares(vs, Sum(vs), n), n * n * n)),
                !.median = IF n % 2 = 0 THEN Frac(sorted[mid] + sorted[mid + 1], 2)
                           ELSE Whole(sorted[mid + 1])]

\* EvaluationResult::calculate_statistics (sorted[i] of the code is sorted[i + 1])
calculate_statistics(self, vs) ==
    IF vs = <<>> THEN self
    ELSE LET n == Len(vs)
             sorted == sort_by(vs)
             mid == n \div 2
         IN  [self EXCEPT
                !.mean = Frac(Sum(vs), n),
                !.std = Sqrt(Frac(SumSquares(vs, Sum(vs), n), n * n * n)),
                !.median = IF n % 2 = 0 THEN Frac(sorted[mid] + sorted[mid + 1], 2)
                           ELSE Whole(sorted[mid + 1])]

\* the filter_map of detect_outliers: the indices (from 0) of the values
\* below lower_bound or above upper_bound, in ascending order; the bounds are
\* handed over doubled (lower2 = 2 * lower_bound), so they stay integers
RECURSIVE OutsideIndices(_, _, _, _)
OutsideIndices(vs, idx, lower2, upper2) ==
    IF idx >= Len(vs) THEN <<>>
    ELSE (IF 2 * vs[idx + 1] < lower2 \/ 2 * vs[idx + 1] > upper2 THEN <<idx>> ELSE <<>>)
         \o OutsideIndices(vs, idx + 1, lower2, upper2)

\* a variant of detect_outliers: a value equal to a bound is flagged as well
detect_outliers_inclusive(vs) ==
    IF Len(vs) < 4 THEN <<>>
    ELSE LET sorted == sort_by(vs)
             q1 == sorted[(Len(sorted) \div 4) + 1]
             q3 == sorted[((3 * Len(sorted)) \div 4) + 1]
             iqr == q3 - q1
         IN  OutsideIndices(vs, 0, 2 * q1 - 3 * iqr + 1, 2 * q3 + 3 * iqr - 1)

\* a variant of detect_outliers: the indices are those of the sorted copy
detect_outliers_sorted_index(vs) ==
    IF Len(vs) < 4 THEN <<>>
    ELSE LET sorted == sort_by(vs)
             q1 == sorted[(Len(sorted) \div 4) + 1]
             q3 == sorted[((3 * Len(sorted)) \div 4) + 1]
             iqr == q3 - q1
         IN  OutsideIndices(sorted, 0, 2 * q1 - 3 * iqr, 2 * q3 + 3 * iqr)

\* a variant of detect_outliers: the quartiles are read from the values in
\* the order given
detect_outliers_unsorted(vs) ==
    IF Len(vs) < 4 THEN <<>>
    ELSE LET q1 == vs[(Len(vs) \div 4) + 1]
             q3 == vs[((3 * Len(vs)) \div 4) + 1]
             iqr == q3 - q1
         IN  OutsideIndices(vs, 0, 2 * q1 - 3 * iqr, 2 * q3 + 3 * iqr)

\* detect_outliers (sorted[i] of the code is sorted[i + 1])
detect_outliers(vs) ==
    IF Len(vs) < 4 THEN <<>>
    ELSE LET sorted == sort_by(vs)
             q1_idx == Len(sorted) \div 4
             q3_idx == (3 * Len(sorted)) \div 4
             q1 == sorted[q1_idx + 1]
             q3 == sorted[q3_idx + 1]
             iqr == q3 - q1
         IN  OutsideIndices(vs, 0, 2 * q1 - 3 * iqr, 2 * q3 + 3 * iqr)

\* the statistics state before any call
StatIdle ==
    /\ values = <<>>
    /\ outliers = <<>>
    /\ result = EvaluationResult_new("", 0)

(***************************************************************************)
(* Evaluator (src/evaluation.rs).  A file is what DigitalObject::from_file *)
(* finds at a path: whether it can be read, the format detect_format       *)
(* returns for its content, whether its XML is well-formed, and the full   *)
(* text the parser returns.  A step of the trace is a record               *)
(* [entry, step, metric]: entry is the position of the entry in the list   *)
(* (0 for gather_candidates), step is "gather", "candidate",               *)
(* "groundtruth" or "metric", metric is the position of the metric in the  *)
(* metric list (0 for the other steps).                                    *)
(***************************************************************************)
\* Result<()> and Result<String> of the loading functions
OkText(text) == [ok |-> TRUE, text |-> text, err |-> ""]
ErrText(msg) == [ok |-> FALSE, text |-> <<>>, err |-> msg]

\* DigitalObject::from_file followed by get_text
from_file(file) ==
    IF ~file.readable THEN ErrText("read error")
    ELSE IF file.format_type = "Unknown" THEN ErrText("Unknown or unsupported format")
    ELSE IF file.format_type \in {"Alto", "Page"} /\ ~file.well_formed
         THEN ErrText("parse error")
    ELSE OkText(file.text)

Step(entry, step, metric) == [entry |-> entry, step |-> step, metric |-> metric]

\* the loop over self.metrics of eval_single, from the metric at position k:
\* the steps performed and the result
RECURSIVE calculate_metrics(_, _, _, _, _)
calculate_metrics(metrics, k, idx, candidate_text, reference_text) ==
    IF k > Len(metrics) THEN [trace |-> <<>>, outcome |-> "Ok"]
    ELSE LET value == calculate(metrics[k], "Nfc", candidate_text, reference_text)
         IN  IF ~value.ok
             THEN [trace |-> <<Step(idx, "metric", k)>>, outcome |-> value.err]
             ELSE LET rest == calculate_metrics(metrics, k + 1, idx,
                                                candidate_text, reference_text)
                  IN  [trace |-> <<Step(idx, "metric", k)>> \o rest.trace,
                       outcome |-> rest.outcome]

\* Evaluator::eval_single on the entry at position idx
eval_single(metrics, idx, entry) ==
    LET loaded == from_file(entry.path_candidate)
    IN  IF ~loaded.ok
        THEN [trace |-> <<Step(idx, "candidate", 0)>>, outcome |-> loaded.err]
        ELSE IF entry.path_groundtruth # None
        THEN LET gt == from_file(Unwrap(entry.path_groundtruth))
             IN  IF ~gt.ok
                 THEN [trace |-> <<Step(idx, "candidate", 0), Step(idx, "groundtruth", 0)>>,
                       outcome |-> gt.err]
                 ELSE LET run == calculate_metrics(metrics, 1, idx, loaded.text,
                                                   Some(gt.text))
                      IN  [trace |-> <<Step(idx, "candidate", 0),
                                       Step(idx, "groundtruth", 0)>> \o run.trace,
                           outcome |-> run.outcome]
        ELSE LET run == calculate_metrics(metrics, 1, idx, loaded.text, None)
             IN  [trace |-> <<Step(idx, "candidate", 0)>> \o run.trace,
                  outcome |-> run.outcome]

\* a variant of the loop of eval_all: an entry that fails is skipped, the
\* following entries are evaluated and the first error is returned at the end
RECURSIVE eval_from_continue(_, _, _)
eval_from_continue(metrics, es, idx) ==
    IF idx > Len(es) THEN [trace |-> <<>>, outcome |-> "Ok"]
    ELSE LET single == eval_single(metrics, idx, es[idx])
             rest == eval_from_continue(metrics, es, idx + 1)
         IN  [trace |-> single.trace \o rest.trace,
              outcome |-> IF single.outcome # "Ok" THEN single.outcome ELSE rest.outcome]

\* the loop of eval_all from the entry at position idx: self.eval_single(entry)?
RECURSIVE eval_from(_, _, _)
eval_from(metrics, es, idx) ==
    IF idx > Len(es) THEN [trace |-> <<>>, outcome |-> "Ok"]
    ELSE LET single == eval_single(metrics, idx, es[idx])
         IN  IF single.outcome # "Ok" THEN single
             ELSE LET rest == eval_from(metrics, es, idx + 1)
                  IN  [trace |-> single.trace \o rest.trace, outcome |-> rest.outcome]

\* Evaluator::eval_all: the steps performed and the result; self.results and
\* self.is_sequential are not used
eval_all(self, es) == eval_from(self.metrics, es, 1)

\* Evaluator::new
Evaluator_new ==
    [reference_path |-> FALSE, metrics |-> <<>>, is_sequential |-> FALSE,
     results |-> <<>>]

\* the command line before it is read
NoArgs == [candidates_is_dir |-> FALSE, candidates |-> <<>>, reference |-> "none",
           metrics |-> <<>>, sequential |-> FALSE]

\* the evaluator and main state before any call
EvalIdle ==
    /\ args = NoArgs
    /\ evaluator = Evaluator_new
    /\ entries = <<>>
    /\ trace = <<>>
    /\ outcome = ""

\* the format detection state before any call
FormatIdle ==
    /\ content = <<>>
    /\ format_type = ""

\* no file was handed to from_file yet
NoFile == [readable |-> FALSE, content |-> <<>>, document |-> None]
NotLoaded == [ok |-> FALSE, err |-> "not called"]

\* the loading state before any call
LoadIdle ==
    /\ input = NoFile
    /\ object = NotLoaded

\* the metric instances before they are constructed
CallIdle ==
    /\ instances = <<>>
    /\ calls = 0

(***************************************************************************)
(* The metric engine as a state machine: metrics constructed with one      *)
(* normalization form are each called on one candidate and reference.      *)
(***************************************************************************)
\* the value of scores before any metric was called
NoScores == [m \in Metrics |-> Err("not called")]

NotParsed == [format |-> "", full_text |-> <<>>, regions |-> <<>>]

PageIdle ==
    /\ doc = <<>>
    /\ ro = {}
    /\ dom_order = <<>>
    /\ ordered_ids = <<>>
    /\ parsed = NotParsed

InitMetric ==
    /\ norm \in NormalizationForm
    /\ candidate \in Texts
    /\ reference \in {None} \cup {Some(t) : t \in Texts}
    /\ scores = NoScores
    /\ pc = "start"
    /\ PageIdle
    /\ StatIdle
    /\ EvalIdle
    /\ FormatIdle
    /\ LoadIdle
    /\ CallIdle

\* metric.calculate(candidate, reference) for each of the metrics
Calculate ==
    /\ pc = "start"
    /\ pc' = "done"
    /\ scores' = [m \in Metrics |-> calculate(m, norm, candidate, reference)]
    /\ UNCHANGED <<norm, candidate, reference, doc, ro, dom_order, ordered_ids, parsed>>
    /\ UNCHANGED <<statVars, evalVars, formatVars, loadVars, callVars>>

NextMetric == Calculate

SpecMetric == InitMetric /\ [][NextMetric]_vars

(***************************************************************************)
(* Properties of the metric engine.                                        *)
(***************************************************************************)
Done == pc = "done"
Hundred == Ok(Whole(100))
Zero == Ok(Whole(0))

\* the words of a text, as a set: its maximal runs of non-whitespace characters
WordsOf(s) ==
    {SubSeq(s, p[1], p[2]) : p \in
        {q \in (1..Len(s)) \X (1..Len(s)) :
            /\ q[1] <= q[2]
            /\ \A k \in q[1]..q[2] : ~IsWhitespace(s[k])
            /\ (q[1] = 1 \/ IsWhitespace(s[q[1] - 1]))
            /\ (q[2] = Len(s) \/ IsWhitespace(s[q[2] + 1]))}}

\* the words of a text that are no stopword of the IR metrics' language
ContentWordsOf(s) ==
    {w \in WordsOf(normalize_text(s, "Nfc")) :
        [i \in 1..Len(w) |-> LowerChar(w[i])] \notin load_stopwords(DefaultLanguage)}

IRMetrics == {"IR-Precision", "IR-Recall", "IR-FMeasure"}

\* C5 as stated: every metric scores a non-empty text against itself with 100.
IdentityScoreEveryMetric ==
    (Done /\ candidate # <<>> /\ reference = Some(candidate))
        => \A m \in Metrics : scores[m] = Hundred

\* C5, amended: Characters, Letters, Words and BagOfWords score every
\* non-empty text against itself with 100; the three IR metrics score it with
\* 100 when the text has a word that is no stopword, and with 0 otherwise
\* (a whitespace-only or stopword-only text).
IdentityScore ==
    (Done /\ candidate # <<>> /\ reference = Some(candidate))
        => /\ \A m \in Metrics \ IRMetrics : scores[m] = Hundred
           /\ \A m \in IRMetrics :
                scores[m] = IF ContentWordsOf(candidate) # {} THEN Hundred ELSE Zero

\* C5 witness: the stopword "an" scored against itself.
IdentityScoreWitness ==
    /\ Done
    /\ candidate = <<"A", "n">>
    /\ reference = Some(candidate)
    /\ scores["Characters"] = Hundred
    /\ scores["IR-FMeasure"] = Zero

\* the alphabetic characters (Unicode Alphabetic) among the characters used
AlphabeticChars == {"a", "n", "A", AUml}
HasLetter(s) == \E i \in 1..Len(s) : s[i] \in AlphabeticChars
HasNonWhitespace(s) == \E i \in 1..Len(s) : ~IsWhitespace(s[i])

CharactersFormula ==
    (Done /\ reference # None /\ reference # Some(<<>>))
        => LET can == normalize_text(candidate, norm)
               ref == normalize_text(Unwrap(reference), norm)
               d == levenshtein(can, ref)
               L == Max2(CharLen(can), CharLen(ref))
           IN  scores["Characters"] = Ok(Frac(100 * (L - d), L))

\* C8: every score a metric returns lies in [0, 100].
ScoreRange ==
    Done => \A m \in Metrics :
              scores[m].ok => /\ FracLe(Whole(0), ScoreOf(scores[m]))
                              /\ FracLe(ScoreOf(scores[m]), Whole(100))

\* C8 witness: scores strictly inside the range and at both ends.
ScoreRangeWitness ==
    /\ Done
    /\ scores["Characters"] = Ok(Whole(50))
    /\ scores["Letters"] = Hundred
    /\ scores["IR-Recall"] = Zero

\* C9: without a reference every metric returns an error, and IR-FMeasure
\* returns the error of its first sub-metric.
MissingReference ==
    (Done /\ reference = None)
        => /\ \A m \in Metrics : ~scores[m].ok /\ scores[m].err # ""
           /\ scores["IR-FMeasure"] = scores["IR-Precision"]

\* C9 witness: the metrics were called on a non-empty candidate without a reference.
MissingReferenceWitness ==
    /\ Done
    /\ reference = None
    /\ candidate = <<"a", " ", "n">>
    /\ ~scores["BagOfWords"].ok
    /\ ~scores["IR-FMeasure"].ok

Jaccard(C, R) ==
    IF C = {} /\ R = {} THEN Whole(100)
    ELSE IF C = {} \/ R = {} THEN Whole(0)
    ELSE Frac(100 * Cardinality(C \cap R), Cardinality(C \cup R))

\* C10: the BagOfWords score is the Jaccard similarity of the two texts' sets
\* of words (a function of the sets alone, so neither the order nor the
\* repetition of words matters), and swapping the two texts gives the same score.
BagOfWordsJaccard ==
    (Done /\ reference # None)
        => /\ scores["BagOfWords"] =
                Ok(Jaccard(WordsOf(normalize_text(candidate, norm)),
                           WordsOf(normalize_text(Unwrap(reference), norm))))
           /\ scores["BagOfWords"] =
                calculate("BagOfWords", norm, Unwrap(reference), Some(candidate))

\* C10 witness: a repeated word in the candidate, one of two words shared.
BagOfWordsJaccardWitness ==
    /\ Done
    /\ candidate = <<"a", " ", "a">>
    /\ reference = Some(<<"n", " ", "a">>)
    /\ scores["BagOfWords"] = Ok(Whole(50))

\* C11: IR-Precision is 100 * |C \cap R| / |C| and IR-Recall is
\* 100 * |C \cap R| / |R|, C and R the sets of the candidate's and the
\* reference's words that are no stopword; precision is 0 when C is empty and
\* recall is 0 when R is empty.
PrecisionRecall ==
    (Done /\ reference # None)
        => LET C == ContentWordsOf(candidate)
               R == ContentWordsOf(Unwrap(reference))
           IN  /\ scores["IR-Precision"] =
                    IF C = {} THEN Zero
                    ELSE Ok(Frac(100 * Cardinality(C \cap R), Cardinality(C)))
               /\ scores["IR-Recall"] =
                    IF R = {} THEN Zero
                    ELSE Ok(Frac(100 * Cardinality(C \cap R), Cardinality(R)))

\* C11 witness: the candidate has a stopword and the one content word of a
\* reference of two content words.
PrecisionRecallWitness ==
    /\ Done
    /\ candidate = <<"A", "n", " ", "a">>
    /\ reference = Some(<<"a", " ", "n">>)
    /\ scores["IR-Precision"] = Hundred
    /\ scores["IR-Recall"] = Ok(Whole(50))

\* arithmetic on scores
FracAdd(x, y) == Frac(x.num * y.den + y.num * x.den, x.den * y.den)
FracMul(x, y) == Frac(x.num * y.num, x.den * y.den)
FracDiv(x, y) == Frac(x.num * y.den, x.den * y.num)
FracMin(x, y) == IF FracLe(x, y) THEN x ELSE y
FracMax(x, y) == IF FracLe(x, y) THEN y ELSE x

FMeasureBalanced ==
    /\ Done
    /\ scores["IR-Precision"] = Ok(Whole(50))
    /\ scores["IR-Recall"] = Ok(Whole(50))
    /\ scores["IR-FMeasure"] = Ok(Whole(50))

(***************************************************************************)
(* PAGE parser (src/model/page_parser.rs) and ALTO parser                  *)
(* (src/model/alto_parser.rs).                                             *)
(*                                                                         *)
(* A document is the sequence of its TextRegion (PAGE) or TextBlock (ALTO) *)
(* elements in document order.  An element carries its id attribute and    *)
(* the texts of its line elements, as parse_text_line returns them.  A     *)
(* Region the parser builds carries `src`, the position of the element it  *)
(* was built from.  A reading order (HashMap<String, usize>) is a set of   *)
(* <<id, index>> pairs with one pair per id.                               *)
(***************************************************************************)
MetricIdle ==
    /\ norm = "Nfc"
    /\ candidate = <<>>
    /\ reference = None
    /\ scores = NoScores

RegionIds == {"r1", "r2", "r3"}
Indices == 0..MaxIndex

\* extract_reading_order: the maps it can return
ReadingOrders ==
    {m \in SUBSET (RegionIds \X Indices) :
        \A x \in m, y \in m : x[1] = y[1] => x = y}

\* HashMap::contains_key / HashMap::get
HasKey(map, id) == \E x \in map : x[1] = id
Get(map, id) == (CHOOSE x \in map : x[1] = id)[2]

\* str::trim
RECURSIVE TrimStart(_)
TrimStart(s) ==
    IF s # <<>> /\ IsWhitespace(Head(s)) THEN TrimStart(Tail(s)) ELSE s

RECURSIVE TrimEnd(_)
TrimEnd(s) ==
    IF s # <<>> /\ IsWhitespace(s[Len(s)]) THEN TrimEnd(SubSeq(s, 1, Len(s) - 1)) ELSE s

Trim(s) == TrimEnd(TrimStart(s))

\* slice::sort_by_key on the (id, index) pairs: a stable sort by index
RECURSIVE InsertByIndex(_, _)
InsertByIndex(x, sorted) ==
    IF sorted = <<>> THEN <<x>>
    ELSE IF x[2] < Head(sorted)[2] THEN <<x>> \o sorted
    ELSE <<Head(sorted)>> \o InsertByIndex(x, Tail(sorted))

RECURSIVE SortByIndexFrom(_, _)
SortByIndexFrom(xs, sorted) ==
    IF xs = <<>> THEN sorted
    ELSE SortByIndexFrom(Tail(xs), InsertByIndex(Head(xs), sorted))

\* a variant of sort_by_key: an unstable sort, equal indices end up reversed
RECURSIVE InsertByIndexFirst(_, _)
InsertByIndexFirst(x, sorted) ==
    IF sorted = <<>> THEN <<x>>
    ELSE IF x[2] <= Head(sorted)[2] THEN <<x>> \o sorted
    ELSE <<Head(sorted)>> \o InsertByIndexFirst(x, Tail(sorted))

RECURSIVE SortUnstableFrom(_, _)
SortUnstableFrom(xs, sorted) ==
    IF xs = <<>> THEN sorted
    ELSE SortUnstableFrom(Tail(xs), InsertByIndexFirst(Head(xs), sorted))

sort_unstable_by_key(xs) == SortUnstableFrom(xs, <<>>)

sort_by_key(xs) == SortByIndexFrom(xs, <<>>)

\* apply_reading_order
apply_reading_order(reading_order, order) ==
    LET Indexed(id) == HasKey(reading_order, id)
        Unindexed(id) == ~HasKey(reading_order, id)
        with_index == SelectSeq(order, Indexed)
        ordered_regions ==
            sort_by_key([i \in 1..Len(with_index) |->
                            <<with_index[i], Get(reading_order, with_index[i])>>])
        unordered_regions == SelectSeq(order, Unindexed)
    IN  [i \in 1..Len(ordered_regions) |-> ordered_regions[i][1]] \o unordered_regions

\* parse_page_document, lines 34-39: the order of the identified regions
resolve_order(reading_order, order) ==
    IF reading_order # {} THEN apply_reading_order(reading_order, order) ELSE order

\* the text a parser builds from parts: each part followed by a line feed
RECURSIVE PushLines(_)
PushLines(parts) ==
    IF parts = <<>> THEN <<>> ELSE Head(parts) \o <<NL>> \o PushLines(Tail(parts))

\* parse_text_region (PAGE) / parse_text_block (ALTO): the Region of element i
parse_text_region(elements, i) ==
    [id |-> elements[i].id,
     text |-> Trim(PushLines(elements[i].lines)),
     lines |-> elements[i].lines,
     src |-> i]

\* parse_alto_document
parse_alto_document(elements) ==
    LET regions == [i \in 1..Len(elements) |-> parse_text_region(elements, i)]
    IN  [format |-> "Alto",
         full_text |-> Trim(PushLines([i \in 1..Len(regions) |-> regions[i].text])),
         regions |-> regions]

\* parse_page_document, lines 20-32: region_dom_order
region_dom_order(elements) ==
    LET HasId(e) == e.id # None
        identified == SelectSeq(elements, HasId)
    IN  [i \in 1..Len(identified) |-> Unwrap(identified[i].id)]

\* parse_page_document, lines 20-32: the regions without an id, pushed at once
RegionsWithoutId(elements) ==
    LET NoId(r) == r.id = None
    IN  SelectSeq([i \in 1..Len(elements) |-> parse_text_region(elements, i)], NoId)

\* parse_page_document, lines 20-32: region_map after the loop; an insert
\* under an id already present replaces the earlier region
region_map(elements) ==
    {parse_text_region(elements, i) : i \in
        {j \in 1..Len(elements) :
            /\ elements[j].id # None
            /\ \A k \in (j + 1)..Len(elements) : elements[k].id # elements[j].id}}

\* parse_page_document, lines 41-48: region_map.remove(id) for each id in turn
RECURSIVE BuildRegions(_, _, _, _)
BuildRegions(ids, map, full_text, regions) ==
    IF ids = <<>> THEN [full_text |-> full_text, regions |-> regions]
    ELSE LET found == {r \in map : r.id = Some(Head(ids))}
         IN  IF found = {} THEN BuildRegions(Tail(ids), map, full_text, regions)
             ELSE LET region == CHOOSE r \in found : TRUE
                  IN  BuildRegions(Tail(ids), map \ {region},
                                   full_text \o region.text \o <<NL>>,
                                   Append(regions, region))

\* parse_page_document
parse_page_document(elements, reading_order) ==
    LET built == BuildRegions(resolve_order(reading_order, region_dom_order(elements)),
                              region_map(elements), <<>>, RegionsWithoutId(elements))
    IN  [format |-> "Page",
         full_text |-> Trim(built.full_text),
         regions |-> built.regions]

(***************************************************************************)
(* Reading-order resolution as a state machine: the ids of the identified  *)
(* regions and a reading order go in, the resolved order comes out.        *)
(***************************************************************************)
InitOrder ==
    /\ dom_order \in SeqsUpTo(RegionIds, MaxRegions)
    /\ ro \in ReadingOrders
    /\ ordered_ids = <<>>
    /\ doc = <<>>
    /\ parsed = NotParsed
    /\ pc = "start"
    /\ MetricIdle
    /\ StatIdle
    /\ EvalIdle
    /\ FormatIdle
    /\ LoadIdle
    /\ CallIdle

ResolveOrder ==
    /\ pc = "start"
    /\ pc' = "done"
    /\ ordered_ids' = resolve_order(ro, dom_order)
    /\ UNCHANGED <<norm, candidate, reference, scores, doc, ro, dom_order, parsed>>
    /\ UNCHANGED <<statVars, evalVars, formatVars, loadVars, callVars>>

NextOrder == ResolveOrder

SpecOrder == InitOrder /\ [][NextOrder]_vars

(***************************************************************************)
(* The parsers as a state machine: a document goes in, from_page or        *)
(* from_alto parses it.                                                    *)
(***************************************************************************)
\* the texts of the line elements of one region element
RegionLines == { <<>>, << <<"a">> >>, << <<"n">>, <<>> >> }

Elements == [id : {None} \cup {Some(i) : i \in RegionIds}, lines : RegionLines]

InitParse ==
    /\ doc \in SeqsUpTo(Elements, MaxElements)
    /\ ro \in ReadingOrders
    /\ dom_order = <<>>
    /\ ordered_ids = <<>>
    /\ parsed = NotParsed
    /\ pc = "start"
    /\ MetricIdle
    /\ StatIdle
    /\ EvalIdle
    /\ FormatIdle
    /\ LoadIdle
    /\ CallIdle

\* DigitalObject::from_page
ParsePage ==
    /\ pc = "start"
    /\ pc' = "done"
    /\ dom_order' = region_dom_order(doc)
    /\ ordered_ids' = resolve_order(ro, region_dom_order(doc))
    /\ parsed' = parse_page_document(doc, ro)
    /\ UNCHANGED <<norm, candidate, reference, scores, doc, ro>>
    /\ UNCHANGED <<statVars, evalVars, formatVars, loadVars, callVars>>

\* DigitalObject::from_alto
ParseAlto ==
    /\ pc = "start"
    /\ pc' = "done"
    /\ parsed' = parse_alto_document(doc)
    /\ UNCHANGED <<norm, candidate, reference, scores, doc, ro, dom_order, ordered_ids>>
    /\ UNCHANGED <<statVars, evalVars, formatVars, loadVars, callVars>>

NextParse == ParsePage \/ ParseAlto

SpecParse == InitParse /\ [][NextParse]_vars

(***************************************************************************)
(* Properties of the parsers.                                              *)
(***************************************************************************)
\* the positions of dom_order whose id has an index, and the index
IndexedPos == {p \in 1..Len(dom_order) : HasKey(ro, dom_order[p])}
UnindexedPos == (1..Len(dom_order)) \ IndexedPos
IndexAt(p) == Get(ro, dom_order[p])

\* the place of position p in the resolved order: the indexed positions by
\* ascending index, equal indices by position, then the others by position
PlaceOf(p) ==
    IF p \in IndexedPos
    THEN 1 + Cardinality({q \in IndexedPos :
                            \/ IndexAt(q) < IndexAt(p)
                            \/ (IndexAt(q) = IndexAt(p) /\ q < p)})
    ELSE Cardinality(IndexedPos) + 1 + Cardinality({q \in UnindexedPos : q < p})

\* C1: the resolved order is the indexed regions sorted ascending by index,
\* equal indices in document order, then the regions without an index in
\* document order; with an empty reading order it is the document order.
ReadingOrderResolved ==
    Done => /\ Len(ordered_ids) = Len(dom_order)
            /\ \A p \in 1..Len(dom_order) : ordered_ids[PlaceOf(p)] = dom_order[p]
            /\ (ro = {} => ordered_ids = dom_order)

\* C1 witness: r3 and r1 share index 0, r2 (first in the document) has none.
ReadingOrderResolvedWitness ==
    /\ Done
    /\ dom_order = <<"r2", "r3", "r1">>
    /\ ro = {<<"r3", 0>>, <<"r1", 0>>}
    /\ ordered_ids = <<"r3", "r1", "r2">>

ParsedPage == Done /\ parsed.format = "Page"

\* C2: every TextRegion element of the source is in the returned regions
\* exactly once.
NoRegionDropped ==
    ParsedPage =>
        \A i \in 1..Len(doc) :
            Cardinality({k \in 1..Len(parsed.regions) : parsed.regions[k].src = i}) = 1

\* C3: the regions without an id come after all identified regions, in
\* document order.
UnidentifiedRegionsLast ==
    ParsedPage =>
        \A k \in 1..Len(parsed.regions), l \in 1..Len(parsed.regions) :
            (k < l /\ parsed.regions[k].id = None)
                => /\ parsed.regions[l].id = None
                   /\ parsed.regions[k].src < parsed.regions[l].src

\* the line texts of a sequence of regions, in order
RECURSIVE AllLines(_)
AllLines(regions) ==
    IF regions = <<>> THEN <<>> ELSE Head(regions).lines \o AllLines(Tail(regions))

\* parts joined with line feeds
RECURSIVE JoinNl(_)
JoinNl(parts) ==
    IF parts = <<>> THEN <<>>
    ELSE IF Len(parts) = 1 THEN parts[1]
    ELSE parts[1] \o <<NL>> \o JoinNl(Tail(parts))

\* C4: the line texts of the returned regions, joined with line feeds and
\* trimmed, are the returned full text.
RoundTrip ==
    Done => Trim(JoinNl(AllLines(parsed.regions))) = parsed.full_text

(***************************************************************************)
(* The statistics as a state machine: calculate_statistics is called on a  *)
(* new EvaluationResult with a value list, then detect_outliers is called  *)
(* on the same list.                                                       *)
(***************************************************************************)
\* the value lists: every list of up to MaxValues values of 0..MaxScore, and
\* every list of up to MaxManyValues values of 0, 1 and MaxScore
ValueLists ==
    SeqsUpTo(0..MaxScore, MaxValues) \cup SeqsUpTo({0, 1, MaxScore}, MaxManyValues)

InitStats ==
    /\ values \in ValueLists
    /\ outliers = <<>>
    /\ result = EvaluationResult_new("key", Len(values))
    /\ pc = "start"
    /\ MetricIdle
    /\ PageIdle
    /\ EvalIdle
    /\ FormatIdle
    /\ LoadIdle
    /\ CallIdle

\* result.calculate_statistics(&values)
CalculateStatistics ==
    /\ pc = "start"
    /\ pc' = "stats"
    /\ result' = calculate_statistics(result, values)
    /\ UNCHANGED <<values, outliers, metricVars, pageVars, evalVars, formatVars, loadVars, callVars>>

\* detect_outliers(&values)
DetectOutliers ==
    /\ pc = "stats"
    /\ pc' = "done"
    /\ outliers' = detect_outliers(values)
    /\ UNCHANGED <<values, result, metricVars, pageVars, evalVars, formatVars, loadVars, callVars>>

NextStats == CalculateStatistics \/ DetectOutliers

SpecStats == InitStats /\ [][NextStats]_vars

(***************************************************************************)
(* Properties of the statistics.                                           *)
(***************************************************************************)
\* the value at index k (from 0) of the values in ascending order
OrderStat(vs, k) ==
    CHOOSE x \in {vs[i] : i \in 1..Len(vs)} :
        /\ Cardinality({i \in 1..Len(vs) : vs[i] < x}) <= k
        /\ k < Cardinality({i \in 1..Len(vs) : vs[i] <= x})

\* the indices (from 0) of the values strictly outside the IQR bounds
FlaggedIndices(vs) ==
    LET n == Len(vs)
        q1 == OrderStat(vs, n \div 4)
        q3 == OrderStat(vs, (3 * n) \div 4)
        iqr == q3 - q1
    IN  {i \in 0..(n - 1) :
            \/ 2 * vs[i + 1] < 2 * q1 - 3 * iqr
            \/ 2 * vs[i + 1] > 2 * q3 + 3 * iqr}

\* C13: detect_outliers returns no index for fewer than 4 values; for 4 or
\* more it returns, in ascending order, exactly the original indices of the
\* values strictly below q1 - 1.5 * iqr or strictly above q3 + 1.5 * iqr, q1
\* and q3 the sorted values at the indices floor(n / 4) and floor(3 * n / 4).
DetectOutliersContract ==
    (pc = "done")
        => IF Len(values) < 4 THEN outliers = <<>>
           ELSE /\ \A j \in 1..Len(outliers), k \in 1..Len(outliers) :
                        j < k => outliers[j] < outliers[k]
                /\ {outliers[j] : j \in 1..Len(outliers)} = FlaggedIndices(values)

\* C13 witness: seven values, a high and a low one flagged, the others equal
\* to both bounds.
DetectOutliersContractWitness ==
    /\ pc = "done"
    /\ values = <<1, MaxScore, 1, 0, 1, 1, 1>>
    /\ outliers = <<1, 3>>

\* a value equal to the lower bound (q1 = 3, q3 = 5, lower bound 0) is not flagged
ValueOnBoundNotFlagged ==
    /\ pc = "done"
    /\ values = <<5, 0, 3, 4>>
    /\ outliers = <<>>

\* the values in ascending order: the order statistics 0 .. n - 1
Ascending(vs) == [k \in 1..Len(vs) |-> OrderStat(vs, k - 1)]

\* n * n times the sum of the squared distances of the values from their mean
SquaredDistances(vs) ==
    LET n == Len(vs)
        total == Sum(vs)
        sq[k \in 0..n] ==
            IF k = 0 THEN 0 ELSE sq[k - 1] + (n * vs[k] - total) * (n * vs[k] - total)
    IN  sq[n]

RemoveAt(vs, idx) == SubSeq(vs, 1, idx) \o SubSeq(vs, idx + 2, Len(vs))

\* std a < std b
SqrtLess(a, b) == a.radicand.num * b.radicand.den < b.radicand.num * a.radicand.den

\* C15: when detect_outliers flags exactly one index, the standard deviation of
\* the list without that value is strictly less than that of the full list.
StdWithoutOutlier ==
    (pc = "done" /\ Len(outliers) = 1)
        => SqrtLess(calculate_statistics(EvaluationResult_new("key", Len(values) - 1),
                                         RemoveAt(values, outliers[1])).std,
                    result.std)

\* C15 witness: the one low value of four is flagged; without it the standard
\* deviation is 0.
StdWithoutOutlierWitness ==
    /\ pc = "done"
    /\ values = <<1, 1, 0, 1>>
    /\ outliers = <<2>>
    /\ result.std = Sqrt(Frac(3, 16))

\* the list without the values at the flagged indices
RECURSIVE RemoveFlagged(_, _, _)
RemoveFlagged(vs, idx, flagged) ==
    IF idx >= Len(vs) THEN <<>>
    ELSE (IF idx \in flagged THEN <<>> ELSE <<vs[idx + 1]>>)
         \o RemoveFlagged(vs, idx + 1, flagged)

\* C16: after the statistics of an EvaluationResult were computed over values
\* of which outlier detection flags some, n_outlier is the number of flagged
\* values and cleared_result holds the statistics of the other values; when
\* nothing is flagged there is no cleared_result; a cleared result has none.
ClearedStatistics ==
    (pc = "done")
        => LET flagged == FlaggedIndices(values)
               rest == RemoveFlagged(values, 0, flagged)
           IN  IF Len(values) >= 4 /\ flagged # {}
               THEN /\ result.n_outlier = Cardinality(flagged)
                    /\ result.cleared_result # None
                    /\ LET cleared == Unwrap(result.cleared_result)
                       IN  /\ cleared.mean = Frac(Sum(rest), Len(rest))
                           /\ cleared.cleared_result = None
               ELSE result.cleared_result = None

(***************************************************************************)
(* The evaluator as a state machine: eval_all on a list of entries, then   *)
(* aggregate, eval_map and report_stdout, as main calls them.              *)
(***************************************************************************)
\* most entries handed to eval_all
MaxEntries == 2
\* most metrics of an evaluator
MaxMetrics == 2

\* files: a PAGE file and a text file that load, a file that cannot be read,
\* an ALTO file that is not well-formed, a file of no known format
PageFile(text) ==
    [readable |-> TRUE, format_type |-> "Page", well_formed |-> TRUE, text |-> text]
TextFile(text) ==
    [readable |-> TRUE, format_type |-> "Text", well_formed |-> TRUE, text |-> text]
Unreadable ==
    [readable |-> FALSE, format_type |-> "Text", well_formed |-> TRUE, text |-> <<>>]
Malformed ==
    [readable |-> TRUE, format_type |-> "Alto", well_formed |-> FALSE, text |-> <<>>]
UnknownFormat ==
    [readable |-> TRUE, format_type |-> "Unknown", well_formed |-> TRUE, text |-> <<>>]

CandidateFiles == {PageFile(<<"a", " ", "n">>), TextFile(<<"a">>), Unreadable, Malformed}
GroundtruthFiles == {TextFile(<<"a">>), Unreadable, UnknownFormat}

\* EvalEntry::new
EvalEntry_new(path) ==
    [path_candidate |-> path, path_groundtruth |-> None, domain_directories |-> "d1"]

\* EvalEntry::set_groundtruth
set_groundtruth(entry, gt_path) == [entry EXCEPT !.path_groundtruth = Some(gt_path)]

EvalEntries ==
    {EvalEntry_new(c) : c \in CandidateFiles}
        \cup {set_groundtruth(EvalEntry_new(c), g) : c \in CandidateFiles, g \in GroundtruthFiles}

\* the metrics an evaluator is set up with
EvalMetrics == {"Characters", "IR-FMeasure"}

\* Evaluator::new, set_metrics, set_sequential and the entries of eval_all
InitEval ==
    /\ \E ms \in SeqsUpTo(EvalMetrics, MaxMetrics), seq \in BOOLEAN :
            evaluator = [Evaluator_new EXCEPT !.metrics = ms, !.is_sequential = seq]
    /\ entries \in SeqsUpTo(EvalEntries, MaxEntries)
    /\ args = NoArgs
    /\ trace = <<>>
    /\ outcome = ""
    /\ pc = "eval_all"
    /\ MetricIdle
    /\ PageIdle
    /\ StatIdle
    /\ FormatIdle
    /\ LoadIdle
    /\ CallIdle

\* evaluator.eval_all(&entries)?
EvalAll ==
    /\ pc = "eval_all"
    /\ LET run == eval_all(evaluator, entries)
       IN  /\ trace' = trace \o run.trace
           /\ IF run.outcome = "Ok"
              THEN pc' = "aggregate" /\ outcome' = outcome
              ELSE pc' = "exit" /\ outcome' = run.outcome
    /\ UNCHANGED <<args, evaluator, entries, metricVars, pageVars, statVars, formatVars, loadVars, callVars>>

\* evaluator.aggregate(true)?: groups nothing and computes nothing
Aggregate ==
    /\ pc = "aggregate"
    /\ pc' = "eval_map"
    /\ UNCHANGED <<evalVars, metricVars, pageVars, statVars, formatVars, loadVars, callVars>>

\* evaluator.eval_map()?
EvalMap ==
    /\ pc = "eval_map"
    /\ pc' = "report"
    /\ UNCHANGED <<evalVars, metricVars, pageVars, statVars, formatVars, loadVars, callVars>>

\* evaluator.report_stdout(..), after which main returns Ok(())
ReportStdout ==
    /\ pc = "report"
    /\ pc' = "exit"
    /\ outcome' = "Ok"
    /\ UNCHANGED <<args, evaluator, entries, trace, metricVars, pageVars, statVars, formatVars, loadVars, callVars>>

NextEval == EvalAll \/ Aggregate \/ EvalMap \/ ReportStdout

SpecEval == InitEval /\ [][NextEval]_vars

\* Evaluator::get_results
get_results(self) == self.results

(***************************************************************************)
(* Properties of the evaluator.                                            *)
(***************************************************************************)
\* the scores of the metric at position k for the entries with the key
RECURSIVE ScoresOf(_, _, _, _)
ScoresOf(es, key, metric, idx) ==
    IF idx > Len(es) THEN <<>>
    ELSE (IF es[idx].domain_directories = key
          THEN <<calculate(metric, "Nfc", from_file(es[idx].path_candidate).text,
                           Some(from_file(Unwrap(es[idx].path_groundtruth)).text))>>
          ELSE <<>>) \o ScoresOf(es, key, metric, idx + 1)

RECURSIVE FracSum(_)
FracSum(xs) ==
    IF xs = <<>> THEN Whole(0)
    ELSE LET rest == FracSum(Tail(xs))
         IN  Frac(Head(xs).num * rest.den + rest.num * Head(xs).den, Head(xs).den * rest.den)

\* C17: after eval_all succeeded on n >= 1 entries with m >= 1 metrics and
\* aggregate was called, get_results() has, for the key of every entry, one
\* EvaluationResult per metric, computed from the scores of the entries with
\* that key.
ResultsAccumulated ==
    (/\ pc \in {"eval_map", "report"}
     /\ Len(entries) >= 1
     /\ Len(evaluator.metrics) >= 1)
        => \A i \in 1..Len(entries) :
              LET key == entries[i].domain_directories
                  results == get_results(evaluator)
              IN  /\ key \in DOMAIN results
                  /\ Len(results[key]) = Len(evaluator.metrics)
                  /\ \A k \in 1..Len(evaluator.metrics) :
                        LET xs == ScoresOf(entries, key, evaluator.metrics[k], 1)
                            sum == FracSum(xs)
                        IN  /\ results[key][k].n_total = Len(xs)
                            /\ results[key][k].mean = Frac(sum.num, sum.den * Len(xs))

\* the steps of the entry at position idx, in the order of eval_single
StepsOf(es, metrics, idx) ==
    <<Step(idx, "candidate", 0)>>
        \o (IF es[idx].path_groundtruth # None THEN <<Step(idx, "groundtruth", 0)>> ELSE <<>>)
        \o [k \in 1..Len(metrics) |-> Step(idx, "metric", k)]

\* every step of every entry, entry by entry
RECURSIVE AllSteps(_, _, _)
AllSteps(es, metrics, idx) ==
    IF idx > Len(es) THEN <<>>
    ELSE StepsOf(es, metrics, idx) \o AllSteps(es, metrics, idx + 1)

\* "" when the step succeeds, else the error it fails with (a metric fails for
\* want of a reference)
ErrorOf(es, st) ==
    LET entry == es[st.entry]
    IN  IF st.step = "candidate" THEN from_file(entry.path_candidate).err
        ELSE IF st.step = "groundtruth" THEN from_file(Unwrap(entry.path_groundtruth)).err
        ELSE IF entry.path_groundtruth = None THEN "Reference required"
        ELSE ""

\* the positions in all the steps of the steps that fail
Failing(es, metrics) ==
    LET all == AllSteps(es, metrics, 1)
    IN  {p \in 1..Len(all) : ErrorOf(es, all[p]) # ""}

Least(S) == CHOOSE p \in S : \A q \in S : p <= q

EvaluatedInOrder ==
    /\ pc = "exit"
    /\ outcome = "Ok"
    /\ Len(trace) = 8
    /\ trace[7] = Step(2, "metric", 1)

(***************************************************************************)
(* main (src/main.rs): the paths are validated, the metric list is read    *)
(* and the evaluator set up, the candidates are gathered and matched with  *)
(* their groundtruth, and the evaluator is run.                            *)
(***************************************************************************)
\* most tokens of the --metrics argument
MaxTokens == 2

\* str::split(','), cur the token read so far
RECURSIVE SplitFrom(_, _, _)
SplitFrom(s, sep, cur) ==
    IF s = <<>> THEN <<cur>>
    ELSE IF Head(s) = sep THEN <<cur>> \o SplitFrom(Tail(s), sep, <<>>)
    ELSE SplitFrom(Tail(s), sep, cur \o <<Head(s)>>)

split(s, sep) == SplitFrom(s, sep, <<>>)

\* the match of initialize_metrics: the label of the metric built for a name,
\* "Unknown" for the `_` arm
match_metric(name) ==
    IF name \in {<<"C", "s">>, <<"C", "h", "a", "r", "a", "c", "t", "e", "r", "s">>}
        THEN "Characters"
    ELSE IF name \in {<<"L", "s">>, <<"L", "e", "t", "t", "e", "r", "s">>}
        THEN "Letters"
    ELSE IF name \in {<<"W", "s">>, <<"W", "o", "r", "d", "s">>}
        THEN "Words"
    ELSE IF name \in {<<"B", "o", "W", "s">>, <<"B", "a", "g", "O", "f", "W", "o", "r", "d", "s">>}
        THEN "BagOfWords"
    ELSE IF name \in {<<"I", "R", "P", "r", "e">>, <<"P", "r", "e">>, <<"P", "r", "e", "c", "i", "s", "i", "o", "n">>}
        THEN "IR-Precision"
    ELSE IF name \in {<<"I", "R", "R", "e", "c">>, <<"R", "e", "c">>, <<"R", "e", "c", "a", "l", "l">>}
        THEN "IR-Recall"
    ELSE IF name \in {<<"I", "R", "F", "M", "e", "a", "s", "u", "r", "e">>, <<"F", "M">>}
        THEN "IR-FMeasure"
    ELSE "Unknown"

\* a variant of the loop of initialize_metrics: a token that matches no name
\* is skipped
RECURSIVE push_known_metrics(_, _)
push_known_metrics(tokens, form) ==
    IF tokens = <<>> THEN [ok |-> TRUE, metrics |-> <<>>, err |-> ""]
    ELSE LET metric == match_metric(Trim(Head(tokens)))
             rest == push_known_metrics(Tail(tokens), form)
         IN  IF metric = "Unknown" THEN rest
             ELSE [ok |-> TRUE, metrics |-> <<metric>> \o rest.metrics, err |-> ""]

\* the loop of initialize_metrics: Result<Vec<Box<dyn OCRMetric>>>
RECURSIVE push_metrics(_, _)
push_metrics(tokens, form) ==
    IF tokens = <<>> THEN [ok |-> TRUE, metrics |-> <<>>, err |-> ""]
    ELSE LET metric == match_metric(Trim(Head(tokens)))
         IN  IF metric = "Unknown"
             THEN [ok |-> FALSE, metrics |-> <<>>, err |-> "Unknown metric"]
             ELSE LET rest == push_metrics(Tail(tokens), form)
                  IN  IF ~rest.ok THEN rest
                      ELSE [ok |-> TRUE, metrics |-> <<metric>> \o rest.metrics, err |-> ""]

\* initialize_metrics
initialize_metrics(metrics_str, form) == push_metrics(split(metrics_str, ","), form)

\* Vec<String>::join(",") of tokens
RECURSIVE JoinComma(_)
JoinComma(ts) ==
    IF Len(ts) = 1 THEN ts[1] ELSE ts[1] \o <<",">> \o JoinComma(Tail(ts))

\* tokens of the --metrics argument: names, names with surrounding
\* whitespace, a name in lower case, a name with a space inside, no name
TokenPool ==
    {<<"C", "s">>, <<" ", "L", "s">>, <<"F", "M", " ">>, <<"R", "e", "c", "a", "l", "l">>,
     <<"c", "s">>, <<"C", " ", "s">>, <<>>}

MetricArgs == {JoinComma(ts) : ts \in SeqsUpTo(TokenPool, MaxTokens) \ {<<>>}}

\* what the candidates directory holds, in path order: the candidate files,
\* each with the file find_groundtruth finds for it in a reference directory
Listed(file, groundtruth) == [file |-> file, groundtruth |-> groundtruth]

SampleDirs ==
    {<<>>,
     <<Listed(PageFile(<<"a", " ", "n">>), Some(TextFile(<<"a">>)))>>,
     <<Listed(TextFile(<<"a">>), None),
       Listed(PageFile(<<"a", " ", "n">>), Some(TextFile(<<"a">>)))>>,
     <<Listed(Malformed, Some(TextFile(<<"a">>))),
       Listed(PageFile(<<"a", " ", "n">>), Some(TextFile(<<"a">>)))>>}

\* Args::parse
InitMain ==
    /\ args \in [candidates_is_dir : BOOLEAN, candidates : SampleDirs,
                 reference : {"none", "dir", "nodir"}, metrics : MetricArgs,
                 sequential : BOOLEAN]
    /\ evaluator = Evaluator_new
    /\ entries = <<>>
    /\ trace = <<>>
    /\ outcome = ""
    /\ pc = "start"
    /\ MetricIdle
    /\ PageIdle
    /\ StatIdle
    /\ FormatIdle
    /\ LoadIdle
    /\ CallIdle

\* main: the is_dir checks of the two paths, std::process::exit(1)
ValidatePaths ==
    /\ pc = "start"
    /\ IF ~args.candidates_is_dir \/ args.reference = "nodir"
       THEN pc' = "exit" /\ outcome' = "exit 1"
       ELSE pc' = "init_metrics" /\ outcome' = outcome
    /\ UNCHANGED <<args, evaluator, entries, trace, metricVars, pageVars, statVars, formatVars, loadVars, callVars>>

\* main: initialize_metrics(..)?, then Evaluator::new, set_metrics,
\* set_sequential and set_reference
InitializeMetrics ==
    /\ pc = "init_metrics"
    /\ LET metric_list == initialize_metrics(args.metrics, "Nfc")
       IN  IF ~metric_list.ok
           THEN /\ pc' = "exit"
                /\ outcome' = metric_list.err
                /\ evaluator' = evaluator
           ELSE /\ pc' = "gather"
                /\ outcome' = outcome
                /\ evaluator' = [Evaluator_new EXCEPT
                                    !.metrics = metric_list.metrics,
                                    !.is_sequential = args.sequential,
                                    !.reference_path = (args.reference = "dir")]
    /\ UNCHANGED <<args, entries, trace, metricVars, pageVars, statVars, formatVars, loadVars, callVars>>

\* main: resolve::gather_candidates(..)?, and the return on an empty list
GatherCandidates ==
    /\ pc = "gather"
    /\ trace' = trace \o <<Step(0, "gather", 0)>>
    /\ entries' = [i \in 1..Len(args.candidates) |-> EvalEntry_new(args.candidates[i].file)]
    /\ IF args.candidates = <<>>
       THEN pc' = "exit" /\ outcome' = "Ok"
       ELSE pc' = "match" /\ outcome' = outcome
    /\ UNCHANGED <<args, evaluator, metricVars, pageVars, statVars, formatVars, loadVars, callVars>>

\* a variant of the matching step of main: every candidate is kept, with or
\* without a groundtruth
MatchGroundtruthUnfiltered ==
    /\ pc = "match"
    /\ pc' = "eval_all"
    /\ LET Found(i) == args.reference = "dir" /\ args.candidates[i].groundtruth # None
       IN  entries' = [i \in 1..Len(entries) |->
                          IF Found(i)
                          THEN set_groundtruth(entries[i], Unwrap(args.candidates[i].groundtruth))
                          ELSE entries[i]]
    /\ UNCHANGED <<args, evaluator, trace, outcome, metricVars, pageVars, statVars, formatVars, loadVars, callVars>>

\* main: set_groundtruth on the candidates find_groundtruth has a file for,
\* then gt_entries, the candidates with a groundtruth
MatchGroundtruth ==
    /\ pc = "match"
    /\ pc' = "eval_all"
    /\ LET Found(i) == args.reference = "dir" /\ args.candidates[i].groundtruth # None
           matched == [i \in 1..Len(entries) |->
                          IF Found(i)
                          THEN set_groundtruth(entries[i], Unwrap(args.candidates[i].groundtruth))
                          ELSE entries[i]]
           has_groundtruth(e) == e.path_groundtruth # None
       IN  entries' = SelectSeq(matched, has_groundtruth)
    /\ UNCHANGED <<args, evaluator, trace, outcome, metricVars, pageVars, statVars, formatVars, loadVars, callVars>>

NextMain ==
    \/ ValidatePaths
    \/ InitializeMetrics
    \/ GatherCandidates
    \/ MatchGroundtruth
    \/ EvalAll
    \/ Aggregate
    \/ EvalMap
    \/ ReportStdout

SpecMain == InitMain /\ [][NextMain]_vars

(***************************************************************************)
(* Properties of main.                                                     *)
(***************************************************************************)
\* the recognized short and long names, each with the label of its metric
RecognizedNames ==
    {<<<<"C", "s">>, "Characters">>,
     <<<<"C", "h", "a", "r", "a", "c", "t", "e", "r", "s">>, "Characters">>,
     <<<<"L", "s">>, "Letters">>,
     <<<<"L", "e", "t", "t", "e", "r", "s">>, "Letters">>,
     <<<<"W", "s">>, "Words">>,
     <<<<"W", "o", "r", "d", "s">>, "Words">>,
     <<<<"B", "o", "W", "s">>, "BagOfWords">>,
     <<<<"B", "a", "g", "O", "f", "W", "o", "r", "d", "s">>, "BagOfWords">>,
     <<<<"I", "R", "P", "r", "e">>, "IR-Precision">>,
     <<<<"P", "r", "e">>, "IR-Precision">>,
     <<<<"P", "r", "e", "c", "i", "s", "i", "o", "n">>, "IR-Precision">>,
     <<<<"I", "R", "R", "e", "c">>, "IR-Recall">>,
     <<<<"R", "e", "c">>, "IR-Recall">>,
     <<<<"R", "e", "c", "a", "l", "l">>, "IR-Recall">>,
     <<<<"I", "R", "F", "M", "e", "a", "s", "u", "r", "e">>, "IR-FMeasure">>,
     <<<<"F", "M">>, "IR-FMeasure">>}

\* the tokens of a comma-separated list: the stretches between the commas
TokensOf(s) ==
    LET commas == {i \in 1..Len(s) : s[i] = ","}
        starts == {1} \cup {i + 1 : i \in commas}
        EndOf(b) == IF \E c \in commas : c >= b
                    THEN (CHOOSE c \in commas : c >= b /\ \A d \in commas : d >= b => c <= d) - 1
                    ELSE Len(s)
        ordered[k \in 1..Cardinality(starts)] ==
            CHOOSE b \in starts : Cardinality({x \in starts : x < b}) = k - 1
    IN  [k \in 1..Cardinality(starts) |-> SubSeq(s, ordered[k], EndOf(ordered[k]))]

\* a token without its leading and trailing whitespace
Stripped(t) ==
    LET solid == {i \in 1..Len(t) : ~IsWhitespace(t[i])}
    IN  IF solid = {} THEN <<>>
        ELSE SubSeq(t, CHOOSE i \in solid : \A j \in solid : i <= j,
                       CHOOSE i \in solid : \A j \in solid : j <= i)

IsRecognized(t) == \E p \in RecognizedNames : p[1] = Stripped(t)
LabelOf(t) == (CHOOSE p \in RecognizedNames : p[1] = Stripped(t))[2]

\* C19: when a token of the metric list, trimmed, is no recognized name,
\* initialize_metrics fails and main stops before a candidate is gathered, a
\* document loaded or a metric calculated; when all tokens are recognized,
\* the metric list has one metric per token, in the order given.
MetricSelection ==
    LET tokens == TokensOf(args.metrics)
    IN  IF \E k \in 1..Len(tokens) : ~IsRecognized(tokens[k])
        THEN /\ pc \in {"start", "init_metrics", "exit"}
             /\ trace = <<>>
             /\ entries = <<>>
             /\ evaluator.metrics = <<>>
             /\ outcome \in {"", "exit 1", "Unknown metric"}
             /\ (pc = "exit" /\ outcome # "exit 1") => outcome = "Unknown metric"
        ELSE (pc \notin {"start", "init_metrics"} /\ outcome # "exit 1")
                => evaluator.metrics = [k \in 1..Len(tokens) |-> LabelOf(tokens[k])]

\* C19 witness: "Cs,cs" with a candidates directory of two files: main has
\* stopped with the error and nothing was gathered or loaded.
MetricSelectionWitness ==
    /\ pc = "exit"
    /\ args.metrics = <<"C", "s", ",", "c", "s">>
    /\ Len(args.candidates) = 2
    /\ outcome = "Unknown metric"
    /\ trace = <<>>

\* "FM , Ls" selects IR-FMeasure and Letters, and the run ends without error
MetricsSelectedInOrder ==
    /\ pc = "exit"
    /\ args.metrics = <<"F", "M", " ", ",", " ", "L", "s">>
    /\ evaluator.metrics = <<"IR-FMeasure", "Letters">>
    /\ outcome = "Ok"
    /\ Len(trace) = 5

\* the listed candidates a groundtruth file is found for, in path order
MatchedCandidates ==
    LET IsMatched(l) == args.reference = "dir" /\ l.groundtruth # None
    IN  SelectSeq(args.candidates, IsMatched)

\* the files of the listed candidates without a groundtruth file
UnmatchedFiles ==
    {args.candidates[i].file :
        i \in {j \in 1..Len(args.candidates) :
                  args.reference # "dir" \/ args.candidates[j].groundtruth = None}}

\* main has called eval_all
EvalAllCalled ==
    \/ pc \in {"aggregate", "eval_map", "report"}
    \/ pc = "exit" /\ trace # <<>> /\ args.candidates # <<>>

\* C28: the entries main passes to eval_all are the candidates matched to a
\* groundtruth file, in order; every metric step follows the loading of the
\* groundtruth of its entry; no file of an unmatched candidate is loaded and
\* an unmatched candidate causes no error; and without a reference directory
\* eval_all runs on the empty list, does nothing and main ends without error.
OnlyMatchedEvaluated ==
    (pc = "eval_all" \/ EvalAllCalled)
        => LET matched == MatchedCandidates
           IN  /\ entries = [i \in 1..Len(matched) |->
                                [path_candidate |-> matched[i].file,
                                 path_groundtruth |-> matched[i].groundtruth,
                                 domain_directories |-> "d1"]]
               /\ \A i \in 1..Len(entries) : entries[i].path_groundtruth # None
               /\ \A p \in 2..Len(trace) :
                     /\ trace[p].entry \in 1..Len(entries)
                     /\ trace[p].step = "metric"
                           => \E q \in 2..(p - 1) :
                                 trace[q] = Step(trace[p].entry, "groundtruth", 0)
                     /\ trace[p].step = "candidate"
                           => entries[trace[p].entry].path_candidate \notin UnmatchedFiles
               /\ Cardinality({p \in 1..Len(trace) : trace[p].step = "candidate"})
                     <= Len(matched)
               /\ (pc = "exit"
                     /\ \A i \in 1..Len(matched) :
                           /\ from_file(matched[i].file).ok
                           /\ from_file(Unwrap(matched[i].groundtruth)).ok)
                     => outcome = "Ok"
               /\ args.reference = "none"
                     => /\ entries = <<>>
                        /\ trace = <<Step(0, "gather", 0)>>
                        /\ pc = "exit" => outcome = "Ok"

\* C28 witness: of two candidates the first has no groundtruth; only the
\* second was loaded, with its groundtruth, and scored, and main ended
\* without error.
OnlyMatchedEvaluatedWitness ==
    /\ pc = "exit"
    /\ args.reference = "dir"
    /\ Len(args.candidates) = 2
    /\ args.candidates[1].groundtruth = None
    /\ args.metrics = <<"C", "s">>
    /\ Len(entries) = 1
    /\ trace = <<Step(0, "gather", 0), Step(1, "candidate", 0),
                 Step(1, "groundtruth", 0), Step(1, "metric", 1)>>
    /\ outcome = "Ok"

\* without a reference directory two candidates are gathered and none loaded
NoReferenceNothingEvaluated ==
    /\ pc = "exit"
    /\ args.reference = "none"
    /\ Len(args.candidates) = 2
    /\ entries = <<>>
    /\ trace = <<Step(0, "gather", 0)>>
    /\ outcome = "Ok"

(***************************************************************************)
(* Format detection (src/model/digital_object.rs).  A content is a         *)
(* sequence of characters, put together from chunks that hold the markers  *)
(* detect_format looks for.                                                *)
(***************************************************************************)
\* most chunks of a content
MaxChunks == 3

\* str::starts_with
starts_with(s, pat) == Len(pat) <= Len(s) /\ SubSeq(s, 1, Len(pat)) = pat

\* str::contains, searching from the left
RECURSIVE contains(_, _)
contains(s, pat) ==
    IF Len(s) < Len(pat) THEN FALSE
    ELSE starts_with(s, pat) \/ contains(Tail(s), pat)

\* the string literals of detect_format
XmlDecl == <<"<", "?", "x", "m", "l">>
AltoTag == <<"<", "a", "l", "t", "o">>
AltoDash == <<"a", "l", "t", "o", "-">>
PcGtsTag == <<"<", "P", "c", "G", "t", "s">>
PageDash == <<"p", "a", "g", "e", "-">>
StringWord == <<"S", "t", "r", "i", "n", "g">>
ContentWord == <<"C", "O", "N", "T", "E", "N", "T">>
TextLineWord == <<"T", "e", "x", "t", "L", "i", "n", "e">>
TextEquivWord == <<"T", "e", "x", "t", "E", "q", "u", "i", "v">>

\* a variant of detect_format: the PAGE markers are looked for first
detect_format_page_first(s) ==
    IF contains(s, PcGtsTag) \/ contains(s, PageDash) THEN "Page"
    ELSE IF contains(s, AltoTag) \/ contains(s, AltoDash) THEN "Alto"
    ELSE IF starts_with(s, XmlDecl)
         THEN IF contains(s, StringWord) /\ contains(s, ContentWord) THEN "Alto"
              ELSE IF contains(s, TextLineWord) /\ contains(s, TextEquivWord) THEN "Page"
              ELSE "Unknown"
    ELSE "Text"

\* DigitalObject::detect_format
detect_format(s) ==
    IF contains(s, AltoTag) \/ contains(s, AltoDash) THEN "Alto"
    ELSE IF contains(s, PcGtsTag) \/ contains(s, PageDash) THEN "Page"
    ELSE IF starts_with(s, XmlDecl)
         THEN IF contains(s, StringWord) /\ contains(s, ContentWord) THEN "Alto"
              ELSE IF contains(s, TextLineWord) /\ contains(s, TextEquivWord) THEN "Page"
              ELSE "Unknown"
    ELSE "Text"

\* the chunks: each literal alone, and the two pairs each in one chunk
Chunks ==
    {XmlDecl, AltoTag, AltoDash, PcGtsTag, PageDash, StringWord, ContentWord,
     StringWord \o <<" ">> \o ContentWord, TextLineWord,
     TextLineWord \o <<" ">> \o TextEquivWord}

RECURSIVE Flatten(_)
Flatten(cs) == IF cs = <<>> THEN <<>> ELSE Head(cs) \o Flatten(Tail(cs))

Contents == {Flatten(cs) : cs \in SeqsUpTo(Chunks, MaxChunks)}

InitFormat ==
    /\ content \in Contents
    /\ format_type = ""
    /\ pc = "start"
    /\ MetricIdle
    /\ PageIdle
    /\ StatIdle
    /\ EvalIdle
    /\ LoadIdle
    /\ CallIdle

\* Self::detect_format(&content)
DetectFormat ==
    /\ pc = "start"
    /\ pc' = "done"
    /\ format_type' = detect_format(content)
    /\ UNCHANGED <<content, metricVars, pageVars, statVars, evalVars, loadVars, callVars>>

NextFormat == DetectFormat

SpecFormat == InitFormat /\ [][NextFormat]_vars

(***************************************************************************)
(* Properties of the format detection.                                     *)
(***************************************************************************)
\* the marker occurs somewhere in the content
Occurs(marker, s) ==
    \E i \in 1..(Len(s) - Len(marker) + 1) : SubSeq(s, i, i + Len(marker) - 1) = marker

\* C20: the format is Alto when the content has an ALTO marker; else Page when
\* it has a PAGE marker; else, when it starts with an XML declaration, Alto
\* with the word-content pair, Page with the line/text-equivalent pair and
\* Unknown otherwise; else Text.  It is determined by the content alone.
FormatDetection ==
    (pc = "done")
        => /\ format_type =
                IF Occurs(AltoTag, content) \/ Occurs(AltoDash, content) THEN "Alto"
                ELSE IF Occurs(PcGtsTag, content) \/ Occurs(PageDash, content) THEN "Page"
                ELSE IF Len(content) >= Len(XmlDecl)
                        /\ \A i \in 1..Len(XmlDecl) : content[i] = XmlDecl[i]
                     THEN IF Occurs(StringWord, content) /\ Occurs(ContentWord, content)
                          THEN "Alto"
                          ELSE IF Occurs(TextLineWord, content)
                                  /\ Occurs(TextEquivWord, content)
                          THEN "Page"
                          ELSE "Unknown"
                ELSE "Text"
           /\ format_type = detect_format(content)

\* C20 witness: a content with a PAGE marker before an ALTO marker is Alto.
FormatDetectionWitness ==
    /\ pc = "done"
    /\ content = PcGtsTag \o AltoDash
    /\ format_type = "Alto"

\* an XML declaration with both pairs is Alto, with none of them Unknown, and
\* a declaration that does not start the content makes it Text
XmlBothPairsIsAlto ==
    /\ pc = "done"
    /\ content = XmlDecl \o TextLineWord \o <<" ">> \o TextEquivWord
                    \o StringWord \o <<" ">> \o ContentWord
    /\ format_type = "Alto"

XmlWithoutPairIsUnknown ==
    /\ pc = "done"
    /\ content = XmlDecl \o StringWord \o TextLineWord
    /\ format_type = "Unknown"

LateXmlDeclIsText ==
    /\ pc = "done"
    /\ content = StringWord \o XmlDecl \o ContentWord
    /\ format_type = "Text"

(***************************************************************************)
(* Loading and the element-level parsers (src/model/digital_object.rs,     *)
(* src/model/alto_parser.rs, src/model/page_parser.rs, src/geometry.rs).   *)
(*                                                                         *)
(* An XML element is a record [tag, attrs, text, children]: attrs is the   *)
(* set of its <<name, value>> attributes, text is Node::text() (None for   *)
(* an element without text), children are its child elements in document   *)
(* order.  Attribute values and texts are sequences of characters.  A      *)
(* Region, TextLine or Word the parser builds carries `src`, the place of  *)
(* the element it was built from among the descendants of the root.  A     *)
(* coordinate is an exact fraction.                                        *)
(***************************************************************************)
Element(tag, attrs, text, children) ==
    [tag |-> tag, attrs |-> attrs, text |-> text, children |-> children]

\* Node::attribute
attribute(node, name) ==
    IF \E p \in node.attrs : p[1] = name
    THEN Some((CHOOSE p \in node.attrs : p[1] = name)[2])
    ELSE None

\* Node::has_tag_name
has_tag_name(node, name) == node.tag = name

\* Node::descendants: the element itself, then its descendants, depth first
RECURSIVE descendants(_)
descendants(node) ==
    <<node>> \o Flatten([i \in 1..Len(node.children) |-> descendants(node.children[i])])

\* the decimal digits
Digits == <<"0", "1", "2", "3", "4", "5", "6", "7", "8", "9">>
IsDigit(c) == \E d \in 1..Len(Digits) : Digits[d] = c
DigitValue(c) == (CHOOSE d \in 1..Len(Digits) : Digits[d] = c) - 1

RECURSIVE DigitsValue(_, _)
DigitsValue(s, acc) ==
    IF s = <<>> THEN acc ELSE DigitsValue(Tail(s), 10 * acc + DigitValue(Head(s)))

RECURSIVE Pow10(_)
Pow10(k) == IF k = 0 THEN 1 ELSE 10 * Pow10(k - 1)

\* str::parse::<f64>().ok() on decimal notation: an optional sign, digits and
\* at most one point, with a digit on at least one side of it
parse_f64(s) ==
    LET signed == s # <<>> /\ Head(s) \in {"-", "+"}
        unsigned == IF signed THEN Tail(s) ELSE s
        parts == split(unsigned, ".")
        whole == parts[1]
        fraction == IF Len(parts) = 2 THEN parts[2] ELSE <<>>
        AllDigits(t) == \A i \in 1..Len(t) : IsDigit(t[i])
    IN  IF \/ Len(parts) > 2
           \/ ~AllDigits(whole)
           \/ ~AllDigits(fraction)
           \/ whole \o fraction = <<>>
        THEN None
        ELSE LET magnitude == Frac(DigitsValue(whole \o fraction, 0), Pow10(Len(fraction)))
             IN  Some(IF signed /\ Head(s) = "-"
                      THEN Frac(-magnitude.num, magnitude.den)
                      ELSE magnitude)

\* str::parse::<usize>() on a run of digits
parse_usize(s) ==
    IF s = <<>> \/ \E i \in 1..Len(s) : ~IsDigit(s[i]) THEN None
    ELSE Some(DigitsValue(s, 0))

\* f64 addition
f64_add(x, y) == Frac(x.num * y.den + y.num * x.den, x.den * y.den)

\* BoundingBox::new
BoundingBox_new(min_x, min_y, max_x, max_y) ==
    [min_x |-> min_x, min_y |-> min_y, max_x |-> max_x, max_y |-> max_y]

\* the fold of f64::min / f64::max over the points' coordinates
RECURSIVE FoldMin(_)
FoldMin(xs) ==
    IF Len(xs) = 1 THEN xs[1]
    ELSE LET rest == FoldMin(Tail(xs))
         IN  IF FracLe(xs[1], rest) THEN xs[1] ELSE rest

RECURSIVE FoldMax(_)
FoldMax(xs) ==
    IF Len(xs) = 1 THEN xs[1]
    ELSE LET rest == FoldMax(Tail(xs))
         IN  IF FracLe(rest, xs[1]) THEN xs[1] ELSE rest

\* BoundingBox::from_points: Result<BoundingBox> as an Option
BoundingBox_from_points(points) ==
    IF points = <<>> THEN None
    ELSE LET xs == [i \in 1..Len(points) |-> points[i].x]
             ys == [i \in 1..Len(points) |-> points[i].y]
         IN  Some(BoundingBox_new(FoldMin(xs), FoldMin(ys), FoldMax(xs), FoldMax(ys)))

\* the loop of parse_polygon_string over the points: None for the first
\* point that is no pair of numbers
RECURSIVE parse_points(_)

\* coordinates.push(Coordinate::new(x, y)) before the points that follow, once
\* x, y and the following points are parsed
push_coordinate(x, y, rest) ==
    IF x = None \/ y = None \/ rest = None THEN None
    ELSE Some(<<[x |-> Unwrap(x), y |-> Unwrap(y)]>> \o Unwrap(rest))

\* one point of the loop: parts are the parts of the point at its commas
parse_point(parts, following) ==
    IF Len(parts) # 2 THEN None
    ELSE push_coordinate(parse_f64(parts[1]), parse_f64(parts[2]),
                         parse_points(following))

parse_points(point_strs) ==
    IF point_strs = <<>> THEN Some(<<>>)
    ELSE parse_point(split(Head(point_strs), ","), Tail(point_strs))

\* a variant of parse_polygon_string: any number of points is accepted
parse_polygon_string_any_length(polygon_str) ==
    parse_points(split_whitespace(polygon_str))

\* the check of parse_polygon_string on the parsed points: at least 3
at_least_3_coordinates(coordinates) ==
    IF coordinates = None THEN None
    ELSE IF Len(Unwrap(coordinates)) < 3 THEN None
    ELSE coordinates

\* geometry::parse_polygon_string: Result<Vec<Coordinate>> as an Option
parse_polygon_string(polygon_str) ==
    at_least_3_coordinates(parse_points(split_whitespace(polygon_str)))

(***************************************************************************)
(* ALTO, element by element (src/model/alto_parser.rs).                    *)
(***************************************************************************)
\* node.attribute(name)?.parse::<f64>().ok()?, given the attribute
parse_attribute(value) == IF value = None THEN None ELSE parse_f64(Unwrap(value))

\* Some(BoundingBox::new(hpos, vpos, hpos + width, vpos + height)), unless
\* one of the four is missing
bounding_box_of(hpos, vpos, width, height) ==
    IF hpos = None \/ vpos = None \/ width = None \/ height = None THEN None
    ELSE Some(BoundingBox_new(Unwrap(hpos), Unwrap(vpos),
                              f64_add(Unwrap(hpos), Unwrap(width)),
                              f64_add(Unwrap(vpos), Unwrap(height))))

\* alto_parser::parse_bounding_box
parse_bounding_box(node) ==
    bounding_box_of(parse_attribute(attribute(node, "HPOS")),
                    parse_attribute(attribute(node, "VPOS")),
                    parse_attribute(attribute(node, "WIDTH")),
                    parse_attribute(attribute(node, "HEIGHT")))

\* the loop of alto_parser::parse_text_line over node.descendants(), from
\* the k-th of them; base is the place of the node itself
\* the Word of a String element with the CONTENT given
alto_word(child, string_content, place) ==
    [text |-> string_content,
     confidence |-> parse_attribute(attribute(child, "WC")),
     bounding_box |-> parse_bounding_box(child),
     src |-> place]

RECURSIVE alto_parser_strings(_, _, _, _, _)
alto_parser_strings(desc, k, base, line_text, words) ==
    IF k > Len(desc) THEN [text |-> line_text, words |-> words]
    ELSE IF has_tag_name(desc[k], "String") /\ attribute(desc[k], "CONTENT") # None
    THEN alto_parser_strings(desc, k + 1, base,
             (IF line_text # <<>> THEN line_text \o <<" ">> ELSE line_text)
                 \o Unwrap(attribute(desc[k], "CONTENT")),
             Append(words, alto_word(desc[k], Unwrap(attribute(desc[k], "CONTENT")),
                                     base + k - 1)))
    ELSE alto_parser_strings(desc, k + 1, base, line_text, words)

\* Ok(TextLine { .. }) from the text and the words found
alto_text_line(node, base, found) ==
    [id |-> attribute(node, "ID"),
     text |-> found.text,
     bounding_box |-> parse_bounding_box(node),
     words |-> found.words,
     src |-> base]

\* alto_parser::parse_text_line
alto_parser_parse_text_line(node, base) ==
    alto_text_line(node, base, alto_parser_strings(descendants(node), 1, base, <<>>, <<>>))

\* the loop of alto_parser::parse_text_block over node.descendants()
RECURSIVE alto_parser_lines(_, _, _)
alto_parser_lines(desc, k, base) ==
    IF k > Len(desc) THEN <<>>
    ELSE (IF has_tag_name(desc[k], "TextLine")
          THEN <<alto_parser_parse_text_line(desc[k], base + k - 1)>>
          ELSE <<>>) \o alto_parser_lines(desc, k + 1, base)

\* Ok(Region { .. }) from the lines found
alto_text_block(node, base, lines) ==
    [id |-> attribute(node, "ID"),
     text |-> Trim(PushLines([i \in 1..Len(lines) |-> lines[i].text])),
     bounding_box |-> parse_bounding_box(node),
     lines |-> lines,
     src |-> base]

\* alto_parser::parse_text_block
alto_parser_parse_text_block(node, base) ==
    alto_text_block(node, base, alto_parser_lines(descendants(node), 1, base))

\* the loop of alto_parser::parse_alto_document over doc.descendants()
RECURSIVE alto_parser_blocks(_, _)
alto_parser_blocks(desc, k) ==
    IF k > Len(desc) THEN <<>>
    ELSE (IF has_tag_name(desc[k], "TextBlock")
          THEN <<alto_parser_parse_text_block(desc[k], k)>>
          ELSE <<>>) \o alto_parser_blocks(desc, k + 1)

\* Ok((full_text.trim().to_string(), regions)) from the regions found
alto_document(regions) ==
    [text |-> Trim(PushLines([i \in 1..Len(regions) |-> regions[i].text])),
     regions |-> regions]

\* alto_parser::parse_alto_document on the root element of the document
alto_parser_parse_alto_document(root) ==
    alto_document(alto_parser_blocks(descendants(root), 1))

(***************************************************************************)
(* PAGE, element by element (src/model/page_parser.rs).                    *)
(***************************************************************************)
\* page_parser::parse_coords: the loop over node.children() from the k-th
RECURSIVE parse_coords_from(_, _)

\* parse_polygon_string(points) and BoundingBox::from_points(&coords), each
\* on what the step before it returned
polygon_of(points) == IF points = None THEN None ELSE parse_polygon_string(Unwrap(points))
bbox_of(coords) == IF coords = None THEN None ELSE BoundingBox_from_points(Unwrap(coords))

\* one child of the loop: bbox is the box of its points attribute
parse_coords_child(children, k, bbox) ==
    IF has_tag_name(children[k], "Coords") /\ bbox # None THEN bbox
    ELSE parse_coords_from(children, k + 1)

parse_coords_from(children, k) ==
    IF k > Len(children) THEN None
    ELSE parse_coords_child(children, k,
                            bbox_of(polygon_of(attribute(children[k], "points"))))

parse_coords(node) == parse_coords_from(node.children, 1)

\* the loops over node.descendants() of parse_text_line and parse_word that
\* look for the text: the text of the last Unicode element that has one
RECURSIVE unicode_text(_, _, _)
unicode_text(desc, k, text) ==
    IF k > Len(desc) THEN text
    ELSE unicode_text(desc, k + 1,
                      IF has_tag_name(desc[k], "Unicode") /\ desc[k].text # None
                      THEN Unwrap(desc[k].text)
                      ELSE text)

\* page_parser::parse_word
page_parser_parse_word(node, base) ==
    [text |-> unicode_text(descendants(node), 1, <<>>),
     confidence |-> parse_attribute(attribute(node, "conf")),
     bounding_box |-> parse_coords(node),
     src |-> base]

\* the second loop of page_parser::parse_text_line over node.descendants()
RECURSIVE page_parser_words(_, _, _)
page_parser_words(desc, k, base) ==
    IF k > Len(desc) THEN <<>>
    ELSE (IF has_tag_name(desc[k], "Word")
          THEN <<page_parser_parse_word(desc[k], base + k - 1)>>
          ELSE <<>>) \o page_parser_words(desc, k + 1, base)

\* page_parser::parse_text_line
page_parser_parse_text_line(node, base) ==
    [id |-> attribute(node, "id"),
     text |-> unicode_text(descendants(node), 1, <<>>),
     bounding_box |-> parse_coords(node),
     words |-> page_parser_words(descendants(node), 1, base),
     src |-> base]

\* the loop of page_parser::parse_text_region over node.descendants()
RECURSIVE page_parser_lines(_, _, _)
page_parser_lines(desc, k, base) ==
    IF k > Len(desc) THEN <<>>
    ELSE (IF has_tag_name(desc[k], "TextLine")
          THEN <<page_parser_parse_text_line(desc[k], base + k - 1)>>
          ELSE <<>>) \o page_parser_lines(desc, k + 1, base)

\* Ok(Region { .. }) from the lines found
page_text_region(node, base, lines) ==
    [id |-> attribute(node, "id"),
     text |-> Trim(PushLines([i \in 1..Len(lines) |-> lines[i].text])),
     bounding_box |-> parse_coords(node),
     lines |-> lines,
     src |-> base]

\* page_parser::parse_text_region
page_parser_parse_text_region(node, base) ==
    page_text_region(node, base, page_parser_lines(descendants(node), 1, base))

\* the TextRegion elements of the document, parsed, in document order
RECURSIVE page_parser_regions(_, _)
page_parser_regions(desc, k) ==
    IF k > Len(desc) THEN <<>>
    ELSE (IF has_tag_name(desc[k], "TextRegion")
          THEN <<page_parser_parse_text_region(desc[k], k)>>
          ELSE <<>>) \o page_parser_regions(desc, k + 1)

\* page_parser::extract_reading_order: the loop over doc.descendants(); an
\* insert under a regionRef already present replaces its index
RECURSIVE extract_reading_order_from(_, _, _)
extract_reading_order_from(desc, k, reading_order) ==
    IF k > Len(desc) THEN reading_order
    ELSE LET node == desc[k]
             region_ref == attribute(node, "regionRef")
             index_str == attribute(node, "index")
             index == IF index_str = None THEN None ELSE parse_usize(Unwrap(index_str))
         IN  IF has_tag_name(node, "RegionRefIndexed") /\ region_ref # None /\ index # None
             THEN extract_reading_order_from(desc, k + 1,
                      {x \in reading_order : x[1] # Unwrap(region_ref)}
                          \cup {<<Unwrap(region_ref), Unwrap(index)>>})
             ELSE extract_reading_order_from(desc, k + 1, reading_order)

extract_reading_order(root) == extract_reading_order_from(descendants(root), 1, {})

\* the rest of parse_page_document once the reading order is extracted and
\* the TextRegion elements are parsed (found, in document order)
page_document(reading_order, found) ==
    LET HasId(r) == r.id # None
        NoId(r) == r.id = None
        identified == SelectSeq(found, HasId)
        dom == [i \in 1..Len(identified) |-> Unwrap(identified[i].id)]
        map == {identified[i] : i \in
                   {j \in 1..Len(identified) :
                       \A k \in (j + 1)..Len(identified) :
                           identified[k].id # identified[j].id}}
        built == BuildRegions(resolve_order(reading_order, dom), map, <<>>,
                              SelectSeq(found, NoId))
    IN  [text |-> Trim(built.full_text), regions |-> built.regions]

\* page_parser::parse_page_document on the root element of the document
page_parser_parse_page_document(root) ==
    page_document(extract_reading_order(root), page_parser_regions(descendants(root), 1))

(***************************************************************************)
(* DigitalObject::from_file.  A file is [readable, content, document]:     *)
(* whether fs::read_to_string succeeds, the content it returns, and what   *)
(* roxmltree's Document::parse makes of the content: None for XML that is  *)
(* not well-formed, else the root element.                                 *)
(***************************************************************************)
\* Result<DigitalObject>
OkObject(format, text, regions) ==
    [ok |-> TRUE, format_type |-> format, text_content |-> text, regions |-> regions,
     err |-> ""]
ErrObject(msg) == [ok |-> FALSE, err |-> msg]

\* Ok(DigitalObject { .. }) of a parsed document
OkParsed(format, document) == OkObject(format, document.text, document.regions)

\* DigitalObject::from_alto
from_alto(a_file) ==
    IF a_file.document = None THEN ErrObject("parse error")
    ELSE OkParsed("Alto", alto_parser_parse_alto_document(Unwrap(a_file.document)))

\* DigitalObject::from_page
from_page(a_file) ==
    IF a_file.document = None THEN ErrObject("parse error")
    ELSE OkParsed("Page", page_parser_parse_page_document(Unwrap(a_file.document)))

\* DigitalObject::from_text
from_text(a_file) == OkObject("Text", a_file.content, <<>>)

\* a variant of DigitalObject::from_file: content that is not well-formed XML
\* is loaded as plain text
DigitalObject_from_file_lenient(a_file) ==
    IF ~a_file.readable THEN ErrObject("read error")
    ELSE LET detected == detect_format(a_file.content)
         IN  CASE detected = "Alto" ->
                    IF a_file.document = None THEN from_text(a_file) ELSE from_alto(a_file)
               [] detected = "Page" ->
                    IF a_file.document = None THEN from_text(a_file) ELSE from_page(a_file)
               [] detected = "Text" -> from_text(a_file)
               [] detected = "Unknown" -> ErrObject("Unknown or unsupported format")

\* DigitalObject::from_file
DigitalObject_from_file(a_file) ==
    IF ~a_file.readable THEN ErrObject("read error")
    ELSE LET detected == detect_format(a_file.content)
         IN  CASE detected = "Alto" -> from_alto(a_file)
               [] detected = "Page" -> from_page(a_file)
               [] detected = "Text" -> from_text(a_file)
               [] detected = "Unknown" -> ErrObject("Unknown or unsupported format")

(***************************************************************************)
(* Loading as a state machine: from_file is called on one file.  The files *)
(* are ALTO and PAGE documents of up to MaxElements block / region         *)
(* elements taken from the samples below, and files that do not load.      *)
(***************************************************************************)
\* the four positional attributes of an ALTO element
Position(hpos, vpos, width, height) ==
    {<<"HPOS", hpos>>, <<"VPOS", vpos>>, <<"WIDTH", width>>, <<"HEIGHT", height>>}

GoodPosition == Position(<<"1">>, <<"2">>, <<"3">>, <<"1", ".", "5">>)
NegativeWidth == Position(<<"4">>, <<"2">>, <<"-", "3">>, <<"1">>)
NegativeHeight == Position(<<"1">>, <<"2">>, <<"3">>, <<"-", "1">>)
NoHeight == {<<"HPOS", <<"1">>>>, <<"VPOS", <<"2">>>>, <<"WIDTH", <<"3">>>>}
UnparsableVpos == Position(<<"1">>, <<"x">>, <<"3">>, <<"1">>)

\* ALTO String elements: with and without CONTENT, with a word confidence
\* inside and outside [0, 1], unparsable, or absent
AltoString(attrs) == Element("String", attrs, None, <<>>)

StringA == AltoString(GoodPosition \cup {<<"CONTENT", <<"a">>>>, <<"WC", <<"0", ".", "5">>>>})
StringN == AltoString(NoHeight \cup {<<"CONTENT", <<"n">>>>})
StringNoContent == AltoString(GoodPosition \cup {<<"WC", <<"1">>>>})
StringHighWc ==
    AltoString(NegativeWidth \cup {<<"CONTENT", <<"a">>>>, <<"WC", <<"1", ".", "5">>>>})
StringBadWc ==
    AltoString(UnparsableVpos \cup {<<"CONTENT", <<"n">>>>, <<"WC", <<"x">>>>})
StringEmpty == AltoString({<<"CONTENT", <<>>>>, <<"WC", <<"-", "1">>>>})
AltoSp == Element("SP", GoodPosition, None, <<>>)

AltoStrings == {StringA, StringN, StringNoContent, StringHighWc, StringBadWc, StringEmpty}

AltoTextLine(attrs, children) == Element("TextLine", attrs, None, children)

AltoLines ==
    {AltoTextLine(GoodPosition \cup {<<"ID", <<"l">>>>}, <<w>>) : w \in AltoStrings}
        \cup {AltoTextLine(GoodPosition, <<>>),
              AltoTextLine(NegativeHeight, <<StringA, AltoSp, StringN>>),
              AltoTextLine(NoHeight, <<StringNoContent, StringA>>),
              AltoTextLine(GoodPosition, <<StringN, StringNoContent, StringA>>)}

AltoTextBlock(attrs, children) == Element("TextBlock", attrs, None, children)

\* TextBlock elements: one line each, two lines, no line, and a block inside
\* a block
AltoBlocks ==
    {AltoTextBlock(GoodPosition \cup {<<"ID", <<"b">>>>}, <<l>>) : l \in AltoLines}
        \cup {AltoTextBlock(UnparsableVpos, <<>>),
              AltoTextBlock(GoodPosition,
                            <<AltoTextLine(GoodPosition, <<StringA>>),
                              AltoTextLine(GoodPosition, <<StringN>>)>>),
              AltoTextBlock(GoodPosition \cup {<<"ID", <<"b">>>>},
                            <<AltoTextLine(GoodPosition, <<StringA>>),
                              AltoTextBlock(GoodPosition \cup {<<"ID", <<"n">>>>},
                                            <<AltoTextLine(GoodPosition, <<StringN>>)>>)>>)}

AltoDocuments ==
    {Element("alto", {}, None, <<Element("Layout", {}, None, blocks)>>) :
        blocks \in SeqsUpTo(AltoBlocks, MaxElements)}

\* PAGE Coords elements: a polygon, two points only, a point that is no
\* number, a point without comma, no points attribute
Coords(points) == Element("Coords", {<<"points", points>>}, None, <<>>)

Polygon == Coords(<<"0", ",", "1", " ", "2", ",", "0", " ", "1", ",", "3">>)
TwoPoints == Coords(<<"0", ",", "1", " ", "2", ",", "0">>)
PointNoNumber == Coords(<<"0", ",", "1", " ", "x", ",", "0", " ", "1", ",", "3">>)
PointNoComma == Coords(<<"0", ",", "1", " ", "2", " ", "1", ",", "3">>)
NoPoints == Element("Coords", {}, None, <<>>)

\* TextEquiv with its Unicode element
TextEquiv(text) ==
    Element("TextEquiv", {}, None, <<Element("Unicode", {}, text, <<>>)>>)

PageWord(attrs, children) == Element("Word", attrs, None, children)

WordA == PageWord({<<"conf", <<"0", ".", "5">>>>}, <<Polygon, TextEquiv(Some(<<"a">>))>>)
WordN == PageWord({}, <<TwoPoints, TextEquiv(Some(<<"n">>))>>)
WordHighConf == PageWord({<<"conf", <<"1", ".", "5">>>>}, <<TextEquiv(Some(<<"A">>))>>)
WordBadConf == PageWord({<<"conf", <<"x">>>>}, <<PointNoNumber>>)

PageWords == {WordA, WordN, WordHighConf, WordBadConf}

PageTextLine(children) == Element("TextLine", {<<"id", <<"l">>>>}, None, children)

\* TextLine elements: the line's TextEquiv after the words, before them,
\* empty or absent; with and without words
LineText == TextEquiv(Some(<<"a", " ", "n">>))

PageLines ==
    {PageTextLine(<<Polygon, w, LineText>>) : w \in PageWords}
        \cup {PageTextLine(<<>>),
              PageTextLine(<<PointNoComma, LineText>>),
              PageTextLine(<<NoPoints, TextEquiv(None)>>),
              PageTextLine(<<Polygon, WordA, WordN, LineText>>),
              PageTextLine(<<LineText, WordA, WordN>>),
              PageTextLine(<<WordA, WordHighConf>>),
              PageTextLine(<<WordN, TextEquiv(None)>>)}

PageTextRegion(attrs, children) == Element("TextRegion", attrs, None, children)

\* TextRegion elements: one line each under the id r1, a region without id,
\* regions with the ids r2 and r3, two lines, and a region inside a region
PageRegions ==
    {PageTextRegion({<<"id", <<"r", "1">>>>}, <<Polygon, l>>) : l \in PageLines}
        \cup {PageTextRegion({}, <<TwoPoints, PageTextLine(<<LineText>>)>>),
              PageTextRegion({<<"id", <<"r", "2">>>>},
                             <<PageTextLine(<<LineText>>),
                               PageTextLine(<<TextEquiv(Some(<<"a">>))>>)>>),
              PageTextRegion({<<"id", <<"r", "3">>>>},
                             <<PageTextLine(<<LineText>>),
                               PageTextRegion({<<"id", <<"r", "2">>>>},
                                              <<PageTextLine(<<WordA>>)>>)>>)}

RegionRefIndexed(region_ref, index) ==
    Element("RegionRefIndexed", {<<"regionRef", region_ref>>, <<"index", index>>}, None, <<>>)

\* no ReadingOrder element, or one that puts r2 before r1 and does not name r3
ReadingOrderElements ==
    {<<>>,
     <<Element("ReadingOrder", {}, None,
               <<RegionRefIndexed(<<"r", "1">>, <<"1">>),
                 RegionRefIndexed(<<"r", "2">>, <<"0">>),
                 RegionRefIndexed(<<"r", "9">>, <<"x">>)>>)>>}

PageDocuments ==
    {Element("PcGts", {}, None, <<Element("Page", {}, None, order \o regions)>>) :
        order \in ReadingOrderElements, regions \in SeqsUpTo(PageRegions, MaxElements)}

\* a file as from_file finds it
File(readable, file_content, document) ==
    [readable |-> readable, content |-> file_content, document |-> document]

\* the contents of the files that are no ALTO or PAGE document: plain text,
\* the empty file, XML of no known format
SomeText == <<"a", " ", "n">>
OtherXml == XmlDecl \o <<"<", "a", ">">>

Files ==
    {File(TRUE, AltoTag, Some(d)) : d \in AltoDocuments}
        \cup {File(TRUE, PcGtsTag, Some(d)) : d \in PageDocuments}
        \cup {File(r, c, d) :
                r \in BOOLEAN,
                c \in {AltoTag, PcGtsTag, XmlDecl \o StringWord \o ContentWord,
                       XmlDecl \o TextLineWord \o TextEquivWord, OtherXml, SomeText, <<>>},
                d \in {None, Some(Element("a", {}, None, <<>>))}}

InitLoad ==
    /\ input \in Files
    /\ object = NotLoaded
    /\ pc = "start"
    /\ MetricIdle
    /\ PageIdle
    /\ StatIdle
    /\ EvalIdle
    /\ FormatIdle
    /\ CallIdle

\* DigitalObject::from_file(path)
FromFile ==
    /\ pc = "start"
    /\ pc' = "done"
    /\ object' = DigitalObject_from_file(input)
    /\ UNCHANGED <<input, metricVars, pageVars, statVars, evalVars, formatVars, callVars>>

NextLoad == FromFile

SpecLoad == InitLoad /\ [][NextLoad]_vars

(***************************************************************************)
(* Properties of loading and of the element-level parsers.                 *)
(***************************************************************************)
\* C21: from_file returns an error and no DigitalObject for a file that
\* cannot be read, for a content of Unknown format, and for a content
\* detected as Alto or Page that is not well-formed XML; otherwise it returns
\* a DigitalObject of the detected format, and an object of format Text has
\* no region and the file's content as its text.
LoadOutcomes ==
    (pc = "done")
        => LET detected == detect_format(input.content)
           IN  IF \/ ~input.readable
                  \/ detected = "Unknown"
                  \/ (detected \in {"Alto", "Page"} /\ input.document = None)
               THEN /\ ~object.ok
                    /\ DOMAIN object = {"ok", "err"}
                    /\ object.err # ""
               ELSE /\ object.ok
                    /\ object.format_type = detected
                    /\ (object.format_type = "Text"
                            => /\ object.regions = <<>>
                               /\ object.text_content = input.content)

\* C21 witness: a readable file whose content is detected as Alto and is not
\* well-formed XML is not loaded.
LoadOutcomesWitness ==
    /\ pc = "done"
    /\ input = File(TRUE, AltoTag, None)
    /\ ~object.ok
    /\ object.err = "parse error"

\* a plain text file is loaded as it is, without regions
TextLoaded ==
    /\ pc = "done"
    /\ input.content = SomeText
    /\ object.ok
    /\ object.format_type = "Text"
    /\ object.text_content = SomeText
    /\ object.regions = <<>>

\* an ALTO or PAGE document was parsed
ParsedDocument == pc = "done" /\ object.ok /\ object.format_type \in {"Alto", "Page"}

\* the lines and the words of the returned regions, by their places
LinePlaces ==
    UNION {{<<i, j>> : j \in 1..Len(object.regions[i].lines)} :
              i \in 1..Len(object.regions)}
LineAt(p) == object.regions[p[1]].lines[p[2]]
WordPlaces ==
    UNION {{<<p, w>> : w \in 1..Len(LineAt(p).words)} : p \in LinePlaces}
WordAt(q) == LineAt(q[1]).words[q[2]]

\* the bounding boxes attached to the returned regions, lines and words
AttachedBoxes ==
    {object.regions[i].bounding_box : i \in 1..Len(object.regions)}
        \cup {LineAt(p).bounding_box : p \in LinePlaces}
        \cup {WordAt(q).bounding_box : q \in WordPlaces}

\* C22: every bounding box the ALTO or the PAGE parser attaches to a region,
\* a line or a word has min_x <= max_x and min_y <= max_y.
BoundingBoxInvariant ==
    ParsedDocument
        => \A b \in AttachedBoxes \ {None} :
              /\ FracLe(Unwrap(b).min_x, Unwrap(b).max_x)
              /\ FracLe(Unwrap(b).min_y, Unwrap(b).max_y)

\* C23: every Word the ALTO or the PAGE parser returns has no confidence or a
\* confidence in [0, 1].
WordConfidence ==
    ParsedDocument
        => \A q \in WordPlaces :
              \/ WordAt(q).confidence = None
              \/ /\ FracLe(Whole(0), Unwrap(WordAt(q).confidence))
                 /\ FracLe(Unwrap(WordAt(q).confidence), Whole(1))

\* the elements of the loaded document, in document order
SourceElements == descendants(Unwrap(input.document))

\* decimal notation: an optional sign, then digits with at most one point
IsNumber(s) ==
    LET unsigned == IF s # <<>> /\ s[1] \in {"+", "-"} THEN Tail(s) ELSE s
        points == {i \in 1..Len(unsigned) : unsigned[i] = "."}
    IN  /\ Cardinality(points) <= 1
        /\ Len(unsigned) > Cardinality(points)
        /\ \A i \in (1..Len(unsigned)) \ points :
              unsigned[i] \in {"0", "1", "2", "3", "4", "5", "6", "7", "8", "9"}

\* the element has the four positional attributes, each of them a number
HasPosition(node) ==
    \A name \in {"HPOS", "VPOS", "WIDTH", "HEIGHT"} :
        \E a \in node.attrs : a[1] = name /\ IsNumber(a[2])

\* a points value of at least three points, each two numbers with a comma between
IsPolygon(s) ==
    LET points == split_whitespace(s)
    IN  /\ Len(points) >= 3
        /\ \A i \in 1..Len(points) :
              \E c \in 1..Len(points[i]) :
                  /\ points[i][c] = ","
                  /\ IsNumber(SubSeq(points[i], 1, c - 1))
                  /\ IsNumber(SubSeq(points[i], c + 1, Len(points[i])))

\* the element has a Coords child whose points value is a polygon
HasPolygon(node) ==
    \E i \in 1..Len(node.children) :
        /\ node.children[i].tag = "Coords"
        /\ \E a \in node.children[i].attrs : a[1] = "points" /\ IsPolygon(a[2])

\* the element has what its format derives a bounding box from
Boxed(node) == IF object.format_type = "Alto" THEN HasPosition(node) ELSE HasPolygon(node)

\* the CONTENT values of the String elements below an ALTO TextLine element
\* that have one, in document order
StringContents(node) ==
    LET WithContent(e) == e.tag = "String" /\ \E a \in e.attrs : a[1] = "CONTENT"
        strings == SelectSeq(descendants(node), WithContent)
    IN  [i \in 1..Len(strings) |->
            (CHOOSE a \in strings[i].attrs : a[1] = "CONTENT")[2]]

\* C24: every well-formed ALTO or PAGE document is parsed without error; the
\* words of an ALTO line are the String elements that have a CONTENT, and its
\* text is their contents joined with spaces, as if the String elements
\* without CONTENT were absent; a region, line or word has a bounding box
\* exactly when its element has the four positional attributes as numbers
\* (ALTO) or a Coords child with a polygon of at least three points (PAGE).
ElementAnomalies ==
    (/\ pc = "done"
     /\ input.readable
     /\ input.document # None
     /\ detect_format(input.content) \in {"Alto", "Page"})
        => /\ object.ok
           /\ LET source == SourceElements
                  lines == LinePlaces
                  words == WordPlaces
              IN  /\ \A i \in 1..Len(object.regions) :
                        (object.regions[i].bounding_box # None)
                            <=> Boxed(source[object.regions[i].src])
                  /\ \A p \in lines :
                        /\ (LineAt(p).bounding_box # None) <=> Boxed(source[LineAt(p).src])
                        /\ object.format_type = "Alto"
                            => LET contents == StringContents(source[LineAt(p).src])
                               IN  /\ LineAt(p).text = JoinSp(contents)
                                   /\ [w \in 1..Len(LineAt(p).words) |->
                                          LineAt(p).words[w].text] = contents
                  /\ \A q \in words :
                        (WordAt(q).bounding_box # None) <=> Boxed(source[WordAt(q).src])

\* C24 witness: an ALTO line without HEIGHT whose first String has no CONTENT:
\* the line has the one word "a" and no bounding box.
ElementAnomaliesWitness ==
    /\ pc = "done"
    /\ input.document =
          Some(Element("alto", {}, None,
                 <<Element("Layout", {}, None,
                     <<AltoTextBlock(GoodPosition \cup {<<"ID", <<"b">>>>},
                         <<AltoTextLine(NoHeight, <<StringNoContent, StringA>>)>>)>>)>>))
    /\ object.ok
    /\ Len(object.regions) = 1
    /\ Len(object.regions[1].lines) = 1
    /\ object.regions[1].lines[1].text = <<"a">>
    /\ Len(object.regions[1].lines[1].words) = 1
    /\ object.regions[1].lines[1].bounding_box = None
    /\ object.regions[1].bounding_box # None

\* a PAGE word with a Coords of two points has no bounding box
NoBoxWithoutPolygon ==
    /\ ParsedDocument
    /\ object.format_type = "Page"
    /\ \E q \in WordPlaces :
          /\ SourceElements[WordAt(q).src] = WordN
          /\ WordAt(q).bounding_box = None

\* the text of an element's own text-equivalent: the text of the Unicode
\* child of its TextEquiv child, empty when there is none or it has no text
OwnTextEquiv(node) ==
    LET equivs == {node.children[i] : i \in 1..Len(node.children)}
        texts == {e.children[1].text :
                    e \in {c \in equivs : /\ c.tag = "TextEquiv"
                                          /\ c.children # <<>>
                                          /\ c.children[1].tag = "Unicode"
                                          /\ c.children[1].text # None}}
    IN  IF texts = {} THEN <<>> ELSE Unwrap(CHOOSE t \in texts : TRUE)

\* C25: the text of every TextLine the PAGE parser returns is the text of the
\* line's own text-equivalent, and empty when the line has none or an empty
\* one; it is never the text of one of the line's words.
PageLineText ==
    (ParsedDocument /\ object.format_type = "Page")
        => LET source == SourceElements
           IN  \A p \in LinePlaces : LineAt(p).text = OwnTextEquiv(source[LineAt(p).src])

\* a line whose text-equivalent follows its words has the text of that text-equivalent
LineTextAfterWords ==
    /\ ParsedDocument
    /\ object.format_type = "Page"
    /\ \E p \in LinePlaces :
          /\ SourceElements[LineAt(p).src] = PageTextLine(<<Polygon, WordA, WordN, LineText>>)
          /\ LineAt(p).text = <<"a", " ", "n">>

\* a line without text-equivalent has the text of its last word
LineTextFromWord ==
    /\ ParsedDocument
    /\ object.format_type = "Page"
    /\ \E p \in LinePlaces :
          /\ SourceElements[LineAt(p).src] = PageTextLine(<<WordA, WordHighConf>>)
          /\ LineAt(p).text = <<"A">>

\* the TextLine elements of the source, and its word elements that make a Word
SourceLines == {k \in 1..Len(SourceElements) : SourceElements[k].tag = "TextLine"}
SourceWords ==
    {k \in 1..Len(SourceElements) :
        IF object.format_type = "Alto"
        THEN /\ SourceElements[k].tag = "String"
             /\ \E a \in SourceElements[k].attrs : a[1] = "CONTENT"
        ELSE SourceElements[k].tag = "Word"}

\* C26: every TextLine element and every word element of the source is
\* represented in exactly one of the returned regions, also when region
\* elements are nested; the regions' line counts add up to the number of
\* TextLine elements.
ExclusiveOwnership ==
    ParsedDocument
        => /\ \A k \in SourceLines :
                Cardinality({p \in LinePlaces : LineAt(p).src = k}) = 1
           /\ \A k \in SourceWords :
                Cardinality({q \in WordPlaces : WordAt(q).src = k}) = 1
           /\ Cardinality(LinePlaces) = Cardinality(SourceLines)

\* a region inside a region: the inner region's line is in both returned regions
LineInTwoRegions ==
    /\ ParsedDocument
    /\ object.format_type = "Page"
    /\ Len(object.regions) = 2
    /\ object.regions[1].id = Some(<<"r", "3">>)
    /\ object.regions[2].id = Some(<<"r", "2">>)
    /\ Len(object.regions[1].lines) = 2
    /\ Len(object.regions[2].lines) = 1
    /\ object.regions[1].lines[2].src = object.regions[2].lines[1].src
    /\ Cardinality(SourceLines) = 2

(***************************************************************************)
(* The metric instances as a state machine (src/metrics.rs): the seven     *)
(* metrics are constructed once, as initialize_metrics does, and then      *)
(* called again and again, each time on the candidate and the reference of *)
(* another entry, as eval_single does.                                     *)
(***************************************************************************)
\* most calculate calls made on an instance
MaxCalls == 3

\* MetricChars::new, MetricLetters::new, MetricWords::new, MetricBoW::new (the
\* preprocessor fields are unit structs)
Metric_new(form) == [norm |-> form]

\* MetricIRPre::new, MetricIRRec::new
MetricIR_new == [language |-> DefaultLanguage]

\* MetricIRFMeasure::new
MetricIRFMeasure_new == [precision_metric |-> MetricIR_new, recall_metric |-> MetricIR_new]

\* the instance initialize_metrics builds for a label
new_metric(metric, form) ==
    CASE metric \in {"Characters", "Letters", "Words", "BagOfWords"} -> Metric_new(form)
      [] metric \in {"IR-Precision", "IR-Recall"} -> MetricIR_new
      [] metric = "IR-FMeasure" -> MetricIRFMeasure_new

\* the value of OCRMetric::calculate(&mut self, ..) from the fields of self
value_of(self, metric, can, ref) ==
    CASE metric = "Characters" -> MetricChars_calculate(self.norm, can, ref)
      [] metric = "Letters" -> MetricLetters_calculate(self.norm, can, ref)
      [] metric = "Words" -> MetricWords_calculate(self.norm, can, ref)
      [] metric = "BagOfWords" -> MetricBoW_calculate(self.norm, can, ref)
      [] metric = "IR-Precision" -> MetricIRPre_calculate(self.language, can, ref)
      [] metric = "IR-Recall" -> MetricIRRec_calculate(self.language, can, ref)
      [] metric = "IR-FMeasure" ->
            LET precision == MetricIRPre_calculate(self.precision_metric.language, can, ref)
            IN  IF ~precision.ok THEN precision
                ELSE LET recall == MetricIRRec_calculate(self.recall_metric.language,
                                                         can, ref)
                     IN  IF ~recall.ok THEN recall
                         ELSE Ok(calculate_f_measure(ScoreOf(precision), ScoreOf(recall)))

\* a variant of calculate: a metric with a normalization form keeps the
\* decomposed form after a call
calculate_mut_decomposing(self, metric, can, ref) ==
    [self |-> IF "norm" \in DOMAIN self THEN [self EXCEPT !.norm = "Nfd"] ELSE self,
     value |-> value_of(self, metric, can, ref)]

\* OCRMetric::calculate(&mut self, candidate, reference): the instance after
\* the call and the value returned; no implementation assigns to a field
calculate_mut(self, metric, can, ref) ==
    [self |-> self, value |-> value_of(self, metric, can, ref)]

\* the texts of the entries: precomposed and decomposed forms, a stopword, words
CallTexts == {<<>>, <<AUml>>, <<"a", Dia>>, <<"a">>, <<"A", "n", " ", "a">>}

\* initialize_metrics(&args.metrics, args.utf8)
InitCalls ==
    /\ norm \in NormalizationForm
    /\ instances = [m \in Metrics |-> new_metric(m, norm)]
    /\ calls = 0
    /\ candidate = <<>>
    /\ reference = None
    /\ scores = NoScores
    /\ pc = "start"
    /\ PageIdle
    /\ StatIdle
    /\ EvalIdle
    /\ FormatIdle
    /\ LoadIdle

\* metric.calculate(&candidate_text, reference_text.as_deref()) for each metric
CallMetrics ==
    /\ calls < MaxCalls
    /\ \E can \in CallTexts, ref \in {None} \cup {Some(t) : t \in CallTexts} :
          LET called == [m \in Metrics |-> calculate_mut(instances[m], m, can, ref)]
          IN  /\ instances' = [m \in Metrics |-> called[m].self]
              /\ scores' = [m \in Metrics |-> called[m].value]
              /\ candidate' = can
              /\ reference' = ref
    /\ calls' = calls + 1
    /\ pc' = "called"
    /\ UNCHANGED <<norm, pageVars, statVars, evalVars, formatVars, loadVars>>

NextCalls == CallMetrics

SpecCalls == InitCalls /\ [][NextCalls]_vars

(***************************************************************************)
(* Properties of the metric instances.                                     *)
(***************************************************************************)
\* C27: whatever calls were made before, each call returns what the metric
\* returns for that call's candidate and reference under the normalization
\* form (or language) it was constructed with, and no call changes an instance.
HistoryIndependent ==
    /\ [](pc = "called"
            => \A m \in Metrics : scores[m] = calculate(m, norm, candidate, reference))
    /\ [][instances' = instances]_vars

\* C27 witness: the third call on instances constructed with NFC scores the
\* precomposed against the decomposed form with 100, and the
\* instances are as they were constructed.
HistoryIndependentWitness ==
    /\ pc = "called"
    /\ calls = MaxCalls
    /\ norm = "Nfc"
    /\ candidate = <<AUml>>
    /\ reference = Some(<<"a", Dia>>)
    /\ scores["Characters"] = Hundred
    /\ instances = [m \in Metrics |-> new_metric(m, "Nfc")]

(***************************************************************************)
(* calculate_statistics on an EvaluationResult that is in use: its public  *)
(* fields hold what earlier calls and the caller have put there.           *)
(***************************************************************************)
\* an EvaluationResult whose fields were all set before the call
UsedResult ==
    [eval_key |-> "key", n_total |-> 3, n_outlier |-> 1, n_chars |-> 2, n_lines |-> 1,
     total_mean |-> Frac(1, 2), mean |-> Frac(7, 2), std |-> Sqrt(Frac(5, 4)),
     median |-> Whole(4), cleared_result |-> Some(EvaluationResult_new("key", 2))]

\* the results calculate_statistics is called on: a new one, a new one after
\* a call on <<3, 0, 2, 1>>, and a used one
PriorResults ==
    {EvaluationResult_new("key", 0),
     calculate_statistics(EvaluationResult_new("other", 4), <<3, 0, 2, 1>>),
     UsedResult}

InitFrame ==
    /\ values \in SeqsUpTo(0..MaxScore, MaxValues)
    /\ outliers = <<>>
    /\ result \in PriorResults
    /\ pc = "start"
    /\ MetricIdle
    /\ PageIdle
    /\ EvalIdle
    /\ FormatIdle
    /\ LoadIdle
    /\ CallIdle

NextFrame == CalculateStatistics

SpecFrame == InitFrame /\ [][NextFrame]_vars

\* C29: a call of calculate_statistics leaves eval_key, n_total, n_outlier,
\* n_chars, n_lines, total_mean and cleared_result as they were, whatever
\* they held; with an empty value list it leaves every field as it was, mean,
\* std and median included; the value list is never changed.
StatisticsFrame ==
    [][ /\ result'.eval_key = result.eval_key
        /\ result'.n_total = result.n_total
        /\ result'.n_outlier = result.n_outlier
        /\ result'.n_chars = result.n_chars
        /\ result'.n_lines = result.n_lines
        /\ result'.total_mean = result.total_mean
        /\ result'.cleared_result = result.cleared_result
        /\ DOMAIN result' = DOMAIN result
        /\ values = <<>> => result' = result
        /\ values' = values ]_vars

\* C29 witness: after a call with an empty list the used result still holds
\* its mean 7/2, its std, its median 4 and its cleared result.
StatisticsFrameWitness ==
    /\ pc = "stats"
    /\ values = <<>>
    /\ result = UsedResult
    /\ result.mean = Frac(7, 2)
    /\ result.median = Whole(4)

\* after a call with <<1, 1>> the used result has mean 1, std 0 and median 1
\* and the other fields as before
StatisticsReplaced ==
    /\ pc = "stats"
    /\ values = <<1, 1>>
    /\ result = [UsedResult EXCEPT !.mean = Frac(2, 2), !.std = Sqrt(Frac(0, 8)),
                                   !.median = Frac(2, 2)]

(***************************************************************************)
(* What detect_outliers leaves unflagged.                                  *)
(***************************************************************************)
\* C30: for a list of n >= 4 values no value equal to the sorted value at
\* index floor(n / 4) or at index floor(3 * n / 4) is flagged, every returned
\* index is one of 0 .. n - 1 and is returned once, fewer than n indices are
\* returned, and the list without the flagged values is not empty.
NeverAllFlagged ==
    (pc = "done" /\ Len(values) >= 4)
        => LET n == Len(values)
               q1 == OrderStat(values, n \div 4)
               q3 == OrderStat(values, (3 * n) \div 4)
               flagged == {outliers[j] : j \in 1..Len(outliers)}
           IN  /\ \A i \in 0..(n - 1) : values[i + 1] \in {q1, q3} => i \notin flagged
               /\ flagged \subseteq 0..(n - 1)
               /\ Cardinality(flagged) = Len(outliers)
               /\ Len(outliers) < n
               /\ RemoveFlagged(values, 0, flagged) # <<>>

\* C30 witness: of five values the four equal ones are both quartiles and
\* stay, the high one is flagged.
NeverAllFlaggedWitness ==
    /\ pc = "done"
    /\ values = <<MaxScore, 0, 0, 0, 0>>
    /\ outliers = <<0>>

\* four values with the one high value on the upper bound: nothing is flagged
QuartilesOnly ==
    /\ pc = "done"
    /\ values = <<0, 0, 0, MaxScore>>
    /\ outliers = <<>>

====
